---- MODULE Spec2Model ----
(***************************************************************************)
(* A model of the PRTG datasource backend (pkg/plugin): the transport      *)
(* client and historical data fetcher of prtg_api.go, and the query        *)
(* router, property resolver and frame builder of datasource.go.  The      *)
(* repository holds several revisions of the same functions; each revision *)
(* is modelled under its own name.                                         *)
(*                                                                         *)
(* A behaviour runs the calls of `todo` one after the other; every call    *)
(* carries its arguments and the answer the PRTG server gives to the HTTP  *)
(* request the call may issue.  `done` records, per finished call, the     *)
(* call, what it returned, the HTTP requests it issued and the field names *)
(* it handed to the property resolver.                                     *)
(***************************************************************************)
EXTENDS Integers, Sequences, FiniteSets, TLC

VARIABLES todo, done, api

vars == <<todo, done, api>>

(***************************************************************************)
(* Bounds of the model.                                                    *)
(***************************************************************************)
\* longest histdata list an upstream answer holds
MaxPoints == 2
\* longest entity listing (groups, devices, sensors) an upstream answer holds
MaxEntities == 2
MaxQueries == 3

(***************************************************************************)
(* Strings (package strings, strconv).                                     *)
(***************************************************************************)
At(s, i) == SubSeq(s, i, i)

HasSuffix(s, suffix) ==
    /\ Len(s) >= Len(suffix)
    /\ SubSeq(s, Len(s) - Len(suffix) + 1, Len(s)) = suffix

HasPrefixAt(s, i, p) ==
    /\ i + Len(p) - 1 <= Len(s)
    /\ SubSeq(s, i, i + Len(p) - 1) = p

Digits == <<"0", "1", "2", "3", "4", "5", "6", "7", "8", "9">>

IsDigit(c) == \E d \in 1..10 : Digits[d] = c

DigitVal(c) == (CHOOSE d \in 1..10 : Digits[d] = c) - 1

AllDigits(s) == Len(s) > 0 /\ \A i \in 1..Len(s) : IsDigit(At(s, i))

RECURSIVE DecVal(_)
DecVal(s) ==
    IF Len(s) = 0 THEN 0
    ELSE 10 * DecVal(SubSeq(s, 1, Len(s) - 1)) + DigitVal(At(s, Len(s)))

\* strconv.FormatInt(n, 10) and the verb %d, n not negative
RECURSIVE FormatInt(_)
FormatInt(n) ==
    IF n < 10 THEN Digits[n + 1]
    ELSE FormatInt(n \div 10) \o Digits[(n % 10) + 1]

Upper == "ABCDEFGHIJKLMNOPQRSTUVWXYZ"
Lower == "abcdefghijklmnopqrstuvwxyz"

LowerChar(c) ==
    IF \E k \in 1..26 : At(Upper, k) = c
    THEN At(Lower, CHOOSE k \in 1..26 : At(Upper, k) = c)
    ELSE c

\* strings.ToLower
RECURSIVE ToLower(_)
ToLower(s) ==
    IF Len(s) = 0 THEN ""
    ELSE LowerChar(At(s, 1)) \o ToLower(SubSeq(s, 2, Len(s)))

UpperChar(c) ==
    IF \E k \in 1..26 : At(Lower, k) = c
    THEN At(Upper, CHOOSE k \in 1..26 : At(Lower, k) = c)
    ELSE c

\* strings.ToUpper
RECURSIVE ToUpper(_)
ToUpper(s) ==
    IF Len(s) = 0 THEN ""
    ELSE UpperChar(At(s, 1)) \o ToUpper(SubSeq(s, 2, Len(s)))

\* strings.TrimSuffix
TrimSuffix(s, suffix) ==
    IF HasSuffix(s, suffix) THEN SubSeq(s, 1, Len(s) - Len(suffix)) ELSE s

\* cases.Title(language.English).String(s) for a text without spaces: the
\* first letter in upper case, the rest in lower case.  An underscore joins
\* letters into one word, so no letter after it is raised.
Title(s) ==
    IF Len(s) = 0 THEN ""
    ELSE UpperChar(At(s, 1)) \o ToLower(SubSeq(s, 2, Len(s)))

\* strconv.FormatFloat(v, 'f', -1, 64) of a value given in tenths, v >= 0
FormatFloat(x) ==
    IF x % 10 = 0 THEN FormatInt(x \div 10)
    ELSE FormatInt(x \div 10) \o "." \o FormatInt(x % 10)

\* strings.ReplaceAll(s, old, ""), old not empty
RECURSIVE RemoveAll(_, _)
RemoveAll(s, old) ==
    IF Len(s) = 0 THEN ""
    ELSE IF HasPrefixAt(s, 1, old) THEN RemoveAll(SubSeq(s, Len(old) + 1, Len(s)), old)
    ELSE At(s, 1) \o RemoveAll(SubSeq(s, 2, Len(s)), old)

IsSpace(c) == c = " "

\* strings.TrimSpace
RECURSIVE TrimSpace(_)
TrimSpace(s) ==
    IF Len(s) = 0 THEN ""
    ELSE IF IsSpace(At(s, 1)) THEN TrimSpace(SubSeq(s, 2, Len(s)))
    ELSE IF IsSpace(At(s, Len(s))) THEN TrimSpace(SubSeq(s, 1, Len(s) - 1))
    ELSE s

\* strings.Split(s, sep), sep one byte: the sequence of the parts
RECURSIVE Split(_, _)
Split(s, sep) ==
    IF \A i \in 1..Len(s) : At(s, i) # sep THEN <<s>>
    ELSE LET k == CHOOSE i \in 1..Len(s) :
                      At(s, i) = sep /\ \A j \in 1..(i - 1) : At(s, j) # sep
         IN  <<SubSeq(s, 1, k - 1)>> \o Split(SubSeq(s, k + 1, Len(s)), sep)

\* strings.Join(parts, sep)
RECURSIVE Join(_, _)
Join(parts, sep) ==
    IF Len(parts) = 0 THEN ""
    ELSE IF Len(parts) = 1 THEN parts[1]
    ELSE parts[1] \o sep \o Join(Tail(parts), sep)


(***************************************************************************)
(* Time.  The code holds instants as int64 milliseconds since the epoch    *)
(* and spans as time.Duration; both exceed the integers TLC computes with, *)
(* so an instant (a span) is a pair of whole hours h and the milliseconds  *)
(* ms within the hour, 0 <= ms < MsPerHour.                                *)
(***************************************************************************)
MsPerHour == 60 * 60 * 1000

Millis(hh, m) == [h |-> hh, ms |-> m]

\* time.UnixMilli
UnixMilli(x) == x

\* Time.Before
Before(a, b) == a.h < b.h \/ (a.h = b.h /\ a.ms < b.ms)

\* Time.Sub: the span a - b
Sub(a, b) ==
    IF a.ms >= b.ms THEN [h |-> a.h - b.h, ms |-> a.ms - b.ms]
    ELSE [h |-> a.h - b.h - 1, ms |-> a.ms + MsPerHour - b.ms]

\* Duration.Hours() <= n and Duration.Hours() > n, for a whole number n
HoursLE(d, n) == d.h < n \/ (d.h = n /\ d.ms = 0)
HoursGT(d, n) == ~HoursLE(d, n)

\* Time.Format("2006-01-02-15-04-05"): the fields the vendor format prints
\* (day since the epoch, hour, minute, second); the milliseconds are dropped.
FormatVendor(t) ==
    [day |-> t.h \div 24, hour |-> t.h % 24,
     minute |-> (t.ms \div 60000), second |-> (t.ms \div 1000) % 60]

(***************************************************************************)
(* Calendar time (package time).  A time.Time of a frame is a record:      *)
(* zero is TRUE for the zero value time.Time{}, unix holds the Unix second *)
(* count otherwise.                                                        *)
(***************************************************************************)
ZeroTime == [zero |-> TRUE, unix |-> 0]
TimeAt(sec) == [zero |-> FALSE, unix |-> sec]

IsLeap(y) == (y % 4 = 0 /\ y % 100 # 0) \/ y % 400 = 0

DaysIn(y, m) ==
    IF m = 2 THEN (IF IsLeap(y) THEN 29 ELSE 28)
    ELSE IF m \in {4, 6, 9, 11} THEN 30 ELSE 31

\* days from 1970-01-01 to the civil date y-m-d
DaysFromCivil(y, m, d) ==
    LET yy  == IF m <= 2 THEN y - 1 ELSE y
        era == yy \div 400
        yoe == yy - era * 400
        mp  == IF m > 2 THEN m - 3 ELSE m + 9
        doy == (153 * mp + 2) \div 5 + d - 1
        doe == yoe * 365 + yoe \div 4 - yoe \div 100 + doy
    IN  era * 146097 + doe - 719468

\* time.Date(y, m, d, hh, mm, ss, 0, time.UTC).Unix()
UnixOf(y, m, d, hh, mm, ss) ==
    DaysFromCivil(y, m, d) * 86400 + hh * 3600 + mm * 60 + ss

\* the digits of s at positions i..j as a number; -1 when one is no digit
NumAt(s, i, j) ==
    IF j <= Len(s) /\ AllDigits(SubSeq(s, i, j)) THEN DecVal(SubSeq(s, i, j)) ELSE 0 - 1

\* the date and clock fields are those of a real instant
ValidClock(y, m, d, hh, mm, ss) ==
    /\ y >= 0 /\ m \in 1..12 /\ d >= 1 /\ d <= DaysIn(y, m)
    /\ hh \in 0..23 /\ mm \in 0..59 /\ ss \in 0..59

\* the result of time.Parse once the layout's fields are read: [ok, unix]
ClockOf(shape, y, m, d, hh, mm, ss) ==
    IF shape /\ ValidClock(y, m, d, hh, mm, ss)
    THEN [ok |-> TRUE, unix |-> UnixOf(y, m, d, hh, mm, ss)]
    ELSE [ok |-> FALSE, unix |-> 0]

\* time.Parse("02.01.2006 15:04:05", s): [ok, unix]
ParseDotted(s) ==
    ClockOf(/\ Len(s) = 19
            /\ At(s, 3) = "." /\ At(s, 6) = "." /\ At(s, 11) = " "
            /\ At(s, 14) = ":" /\ At(s, 17) = ":",
            NumAt(s, 7, 10), NumAt(s, 4, 5), NumAt(s, 1, 2),
            NumAt(s, 12, 13), NumAt(s, 15, 16), NumAt(s, 18, 19))

\* time.Parse(time.RFC3339, s) for a UTC timestamp 2006-01-02T15:04:05Z: [ok, unix]
ParseStandard(s) ==
    ClockOf(/\ Len(s) = 20
            /\ At(s, 5) = "-" /\ At(s, 8) = "-" /\ At(s, 11) = "T"
            /\ At(s, 14) = ":" /\ At(s, 17) = ":" /\ At(s, 20) = "Z",
            NumAt(s, 1, 4), NumAt(s, 6, 7), NumAt(s, 9, 10),
            NumAt(s, 12, 13), NumAt(s, 15, 16), NumAt(s, 18, 19))

\* the first attempt that succeeded: [ok, time]
firstSuccess(dotted, standard) ==
    IF dotted.ok THEN [ok |-> TRUE, time |-> TimeAt(dotted.unix)]
    ELSE IF standard.ok THEN [ok |-> TRUE, time |-> TimeAt(standard.unix)]
    ELSE [ok |-> FALSE, time |-> ZeroTime]

\* parsePRTGDateTime as part_000 calls it (three results; its source is not
\* in the repository): the formats are tried in order, DD.MM.YYYY HH:mm:ss
\* first, then the standard timestamp; [ok, time]
parsePRTGDateTime(datetime) ==
    firstSuccess(ParseDotted(datetime), ParseStandard(datetime))


(***************************************************************************)
(* JSON values.  A value is a record [t, f, s]: t names the Go type        *)
(* encoding/json decodes it to ("float64", "string", "bool", "nil"), f is  *)
(* the number and s the string.  A float64 is held as a whole number of    *)
(* tenths (78.9 is 789), the precision of the values the model feeds in.   *)
(***************************************************************************)
Num(x) == [t |-> "float64", f |-> x, s |-> ""]
Str(x) == [t |-> "string", f |-> 0, s |-> x]
JTrue == [t |-> "bool", f |-> 1, s |-> ""]
JNull == [t |-> "nil", f |-> 0, s |-> ""]

\* strconv.ParseFloat(s, 64) on the decimal syntax [-]digits[.digit]:
\* [ok, f], f in tenths.  Any other text is a syntax error.
ParseFloat(s) ==
    LET neg  == Len(s) > 0 /\ At(s, 1) = "-"
        body == IF neg THEN SubSeq(s, 2, Len(s)) ELSE s
        n    == Len(body)
        frac == n >= 3 /\ At(body, n - 1) = "."
        ip   == IF frac THEN SubSeq(body, 1, n - 2) ELSE body
        fd   == IF frac THEN At(body, n) ELSE "0"
        ok   == AllDigits(ip) /\ IsDigit(fd)
        mag  == IF ok THEN 10 * DecVal(ip) + DigitVal(fd) ELSE 0
    IN  [ok |-> ok, f |-> IF neg THEN 0 - mag ELSE mag]

(***************************************************************************)
(* The PRTG server.  An answer to one HTTP request: net is FALSE when the  *)
(* transport fails (no connection, timeout), status is the HTTP status,    *)
(* body the payload: json is FALSE for a malformed payload, present says   *)
(* whether the payload has the list the endpoint is asked for (histdata,   *)
(* groups, devices, sensors) and list holds its elements.                  *)
(***************************************************************************)
StatusOK == 200
StatusForbidden == 403

Answer(n, st, b) == [net |-> n, status |-> st, body |-> b, read |-> TRUE]
Body(j, p, l) == [json |-> j, present |-> p, list |-> l, nil |-> FALSE]
\* the nil []byte returned with an error
NoBody == [json |-> FALSE, present |-> FALSE, list |-> <<>>, nil |-> TRUE]

\* no answer: the connection fails
NoAnswer == Answer(FALSE, 0, NoBody)

\* a 200 answer whose body breaks off while it is read (io.ReadAll fails)
UnreadAnswer == [net |-> TRUE, status |-> StatusOK, body |-> NoBody, read |-> FALSE]

\* the request client.Do sends: GET base/api/{endpoint}?params
Request(endpoint, params) == [endpoint |-> endpoint, params |-> params]

(***************************************************************************)
(* prtg_api.go, second revision (lines 234-545).                           *)
(***************************************************************************)
\* url.Parse(rawURL) succeeds: a URL that starts with a colon has no scheme
ParseOk(rawURL) == ~HasPrefixAt(rawURL, 1, ":")

\* url.Values after q.Set("apitoken", apiKey) and q.Set(key, value) for every
\* entry of params: Set replaces the value a key already holds
QueryValues(apiKey, params) ==
    [k \in DOMAIN params \cup {"apitoken"} |->
        IF k \in DOMAIN params THEN params[k] ELSE apiKey]

\* Api.buildApiUrl (lines 269-285): [err, url]; the URL is held by its parts,
\* base, path and the query values that u.RawQuery = q.Encode() carries
buildApiUrl(baseURL, apiKey, method, params) ==
    IF ~ParseOk(baseURL \o "/api/" \o method)
    THEN [err |-> "invalid URL", url |-> <<>>]
    ELSE [err |-> "",
          url |-> [base  |-> baseURL,
                   path  |-> "/api/" \o method,
                   query |-> QueryValues(apiKey, params)]]

\* the transport client taking every status below 300 for a success
baseExecuteRequest_any2xx(endpoint, params, up) ==
    LET sent == <<Request(endpoint, params)>>
    IN  IF ~up.net
        THEN [err |-> "request failed", body |-> NoBody, requests |-> sent]
        ELSE IF up.status = StatusForbidden
        THEN [err |-> "access denied: please verify API token and permissions",
              body |-> NoBody, requests |-> sent]
        ELSE IF up.status >= 300
        THEN [err |-> "unexpected status code: " \o FormatInt(up.status),
              body |-> NoBody, requests |-> sent]
        ELSE IF ~up.read
        THEN [err |-> "failed to read response body", body |-> NoBody, requests |-> sent]
        ELSE [err |-> "", body |-> up.body, requests |-> sent]

\* Api.baseExecuteRequest: one GET; [err, body, requests]
baseExecuteRequest(endpoint, params, up) ==
    LET sent == <<Request(endpoint, params)>>
    IN  IF ~up.net
        THEN [err |-> "request failed", body |-> NoBody, requests |-> sent]
        ELSE IF up.status = StatusForbidden
        THEN [err |-> "access denied: please verify API token and permissions",
              body |-> NoBody, requests |-> sent]
        ELSE IF up.status # StatusOK
        THEN [err |-> "unexpected status code: " \o FormatInt(up.status),
              body |-> NoBody, requests |-> sent]
        ELSE IF ~up.read
        THEN [err |-> "failed to read response body", body |-> NoBody, requests |-> sent]
        ELSE [err |-> "", body |-> up.body, requests |-> sent]

\* PrtgValues.UnmarshalJSON: the "datetime" key, when a string, becomes
\* Datetime; every other key goes to Value.
UnmarshalPrtgValues(raw) ==
    [Datetime |-> IF "datetime" \in DOMAIN raw /\ raw["datetime"].t = "string"
                  THEN raw["datetime"].s ELSE "",
     Value    |-> [k \in DOMAIN raw \ {"datetime"} |-> raw[k]]]

\* json.Unmarshal(body, &PrtgHistoricalDataResponse): [ok, HistData]
UnmarshalHistorical(body) ==
    [ok       |-> body.json,
     HistData |-> IF body.json /\ body.present
                  THEN [i \in 1..Len(body.list) |-> UnmarshalPrtgValues(body.list[i])]
                  ELSE <<>>]

\* the averaging switch with the values of two neighbouring cases exchanged
avgFor_swapped(d) ==
    IF HoursLE(d, 24) THEN "0"
    ELSE IF HoursLE(d, 48) THEN "60"
    ELSE IF HoursLE(d, 72) THEN "900"
    ELSE IF HoursLE(d, 168) THEN "300"
    ELSE IF HoursLE(d, 336) THEN "1800"
    ELSE IF HoursLE(d, 720) THEN "3600"
    ELSE IF HoursLE(d, 1440) THEN "7200"
    ELSE IF HoursLE(d, 2160) THEN "14400"
    ELSE "86400"

\* the averaging switch of GetHistoricalData (lines 468-488)
avgFor(d) ==
    IF HoursLE(d, 24) THEN "0"
    ELSE IF HoursLE(d, 48) THEN "60"
    ELSE IF HoursLE(d, 72) THEN "300"
    ELSE IF HoursLE(d, 168) THEN "900"
    ELSE IF HoursLE(d, 336) THEN "1800"
    ELSE IF HoursLE(d, 720) THEN "3600"
    ELSE IF HoursLE(d, 1440) THEN "7200"
    ELSE IF HoursLE(d, 2160) THEN "14400"
    ELSE "86400"

HistoricalParams(sensorID, avg, startTime, endTime) ==
    [id |-> sensorID, columns |-> "datetime,value_", avg |-> avg,
     sdate |-> FormatVendor(startTime), edate |-> FormatVendor(endTime),
     count |-> "50000", usecaption |-> "1"]

NoData == [err |-> "", HistData |-> <<>>, requests |-> <<>>]

\* GetHistoricalData with the range check `hours < 0`: an empty range passes
GetHistoricalData_acceptsEqual(sensorID, startDate, endDate, up) ==
    LET startTime == UnixMilli(startDate)
        endTime   == UnixMilli(endDate)
        hours     == Sub(endTime, startTime)
        reply     == baseExecuteRequest("historicdata.json",
                         HistoricalParams(sensorID, avgFor(hours), startTime, endTime), up)
        response  == UnmarshalHistorical(reply.body)
    IN  IF sensorID = ""
        THEN [NoData EXCEPT !.err = "invalid query: missing sensor ID"]
        ELSE IF hours.h < 0
        THEN [NoData EXCEPT !.err = "invalid time range: start date must be before end date"]
        ELSE IF reply.err # ""
        THEN [NoData EXCEPT !.err = "failed to fetch historical data: " \o reply.err,
                            !.requests = reply.requests]
        ELSE IF ~response.ok
        THEN [NoData EXCEPT !.err = "failed to parse response",
                            !.requests = reply.requests]
        ELSE IF Len(response.HistData) = 0
        THEN [NoData EXCEPT !.err = "no data found for the given time range",
                            !.requests = reply.requests]
        ELSE [err |-> "", HistData |-> response.HistData, requests |-> reply.requests]

\* GetHistoricalData without the check for an empty histdata list
GetHistoricalData_emptyOk(sensorID, startDate, endDate, up) ==
    LET startTime == UnixMilli(startDate)
        endTime   == UnixMilli(endDate)
        hours     == Sub(endTime, startTime)
        reply     == baseExecuteRequest("historicdata.json",
                         HistoricalParams(sensorID, avgFor(hours), startTime, endTime), up)
        response  == UnmarshalHistorical(reply.body)
    IN  IF sensorID = ""
        THEN [NoData EXCEPT !.err = "invalid query: missing sensor ID"]
        ELSE IF HoursLE(hours, 0)
        THEN [NoData EXCEPT !.err = "invalid time range: start date must be before end date"]
        ELSE IF reply.err # ""
        THEN [NoData EXCEPT !.err = "failed to fetch historical data: " \o reply.err,
                            !.requests = reply.requests]
        ELSE IF ~response.ok
        THEN [NoData EXCEPT !.err = "failed to parse response",
                            !.requests = reply.requests]
        ELSE IF FALSE
        THEN [NoData EXCEPT !.err = "no data found for the given time range",
                            !.requests = reply.requests]
        ELSE [err |-> "", HistData |-> response.HistData, requests |-> reply.requests]

\* Api.GetHistoricalData(sensorID, startDate, endDate): [err, HistData, requests]
GetHistoricalData(sensorID, startDate, endDate, up) ==
    LET startTime == UnixMilli(startDate)
        endTime   == UnixMilli(endDate)
        hours     == Sub(endTime, startTime)
        reply     == baseExecuteRequest("historicdata.json",
                         HistoricalParams(sensorID, avgFor(hours), startTime, endTime), up)
        response  == UnmarshalHistorical(reply.body)
    IN  IF sensorID = ""
        THEN [NoData EXCEPT !.err = "invalid query: missing sensor ID"]
        ELSE IF HoursLE(hours, 0)
        THEN [NoData EXCEPT !.err = "invalid time range: start date must be before end date"]
        ELSE IF reply.err # ""
        THEN [NoData EXCEPT !.err = "failed to fetch historical data: " \o reply.err,
                            !.requests = reply.requests]
        ELSE IF ~response.ok
        THEN [NoData EXCEPT !.err = "failed to parse response",
                            !.requests = reply.requests]
        ELSE IF Len(response.HistData) = 0
        THEN [NoData EXCEPT !.err = "no data found for the given time range",
                            !.requests = reply.requests]
        ELSE [err |-> "", HistData |-> response.HistData, requests |-> reply.requests]

(***************************************************************************)
(* prtg_api.go, first revision (lines 1-232).                              *)
(***************************************************************************)
\* Api.baseExecuteRequest (lines 57-90)
baseExecuteRequestRev1(endpoint, params, up) ==
    LET sent == <<Request(endpoint, params)>>
    IN  IF ~up.net
        THEN [err |-> "Anfrage fehlgeschlagen", body |-> NoBody, requests |-> sent]
        ELSE IF up.status = StatusForbidden
        THEN [err |-> "Zugriff verweigert: Bitte API-Token und Berechtigungen ueberpruefen",
              body |-> NoBody, requests |-> sent]
        ELSE IF up.status # StatusOK
        THEN [err |-> "unerwarteter Statuscode: " \o FormatInt(up.status),
              body |-> NoBody, requests |-> sent]
        ELSE IF ~up.read
        THEN [err |-> "Fehler beim Lesen des Response-Bodys", body |-> NoBody,
              requests |-> sent]
        ELSE [err |-> "", body |-> up.body, requests |-> sent]

\* the averaging switch of GetHistoricalData (lines 194-205)
avgForRev1(d) ==
    IF HoursGT(d, 745) THEN "86400"
    ELSE IF HoursGT(d, 36) THEN "3600"
    ELSE IF HoursGT(d, 12) THEN "300"
    ELSE "0"

\* Api.GetHistoricalData (lines 180-232)
GetHistoricalDataRev1(sensorID, startDate, endDate, up) ==
    LET startTime == UnixMilli(startDate)
        endTime   == UnixMilli(endDate)
        hours     == Sub(endTime, startTime)
        reply     == baseExecuteRequestRev1("historicdata.json",
                         HistoricalParams(sensorID, avgForRev1(hours), startTime, endTime), up)
        response  == UnmarshalHistorical(reply.body)
    IN  IF sensorID = ""
        THEN [NoData EXCEPT !.err = "ungueltige Anfrage: Sensor-ID fehlt"]
        ELSE IF ~Before(startTime, endTime)
        THEN [NoData EXCEPT !.err = "ungueltiger Zeitraum: Startzeit muss vor Endzeit liegen"]
        ELSE IF reply.err # ""
        THEN [NoData EXCEPT !.err = "historische Daten konnten nicht abgerufen werden: "
                                        \o reply.err,
                            !.requests = reply.requests]
        ELSE IF ~response.ok
        THEN [NoData EXCEPT !.err = "Fehler beim Parsen des Response",
                            !.requests = reply.requests]
        ELSE IF Len(response.HistData) = 0
        THEN [NoData EXCEPT !.err = "keine Daten fuer den angegebenen Zeitraum gefunden",
                            !.requests = reply.requests]
        ELSE [err |-> "", HistData |-> response.HistData, requests |-> reply.requests]

(***************************************************************************)
(* Entity fetchers (prtg_api.go, second revision).  A listing decodes into *)
(* records with the typed fields of PrtgGroupListItemStruct,               *)
(* PrtgDeviceListItemStruct and PrtgSensorListItemStruct.                  *)
(***************************************************************************)
TableParams(content) ==
    [content |-> content,
     columns |-> "active,channel,datetime,device,group,message,objid,priority,sensor,status,tags",
     count   |-> "50000"]

\* json.Unmarshal(body, &Prtg...ListResponse): [ok, list]
UnmarshalListing(body) ==
    [ok |-> body.json, list |-> IF body.json /\ body.present THEN body.list ELSE <<>>]

\* a fetcher that sends its request a second time when the first one failed
GetListing_retry(content, up) ==
    LET reply    == baseExecuteRequest("table.json", TableParams(content), up)
        response == UnmarshalListing(reply.body)
    IN  IF reply.err # ""
        THEN [err |-> reply.err, list |-> <<>>,
              requests |-> reply.requests \o reply.requests]
        ELSE IF ~response.ok
        THEN [err |-> "failed to parse response", list |-> <<>>, requests |-> reply.requests]
        ELSE [err |-> "", list |-> response.list, requests |-> reply.requests]

\* Api.GetGroups, Api.GetDevices, Api.GetSensors: [err, list, requests]
GetListing(content, up) ==
    LET reply    == baseExecuteRequest("table.json", TableParams(content), up)
        response == UnmarshalListing(reply.body)
    IN  IF reply.err # ""
        THEN [err |-> reply.err, list |-> <<>>, requests |-> reply.requests]
        ELSE IF ~response.ok
        THEN [err |-> "failed to parse response", list |-> <<>>, requests |-> reply.requests]
        ELSE [err |-> "", list |-> response.list, requests |-> reply.requests]

GetGroups(up) == GetListing("groups", up)
GetDevices(up) == GetListing("devices", up)
GetSensors(up) == GetListing("sensors", up)

\* what GetStatusList and GetChannels make of the reply: [err, list, requests]
decoded(reply) ==
    IF reply.err # ""
    THEN [err |-> reply.err, list |-> <<>>, requests |-> reply.requests]
    ELSE IF ~reply.body.json
    THEN [err |-> "failed to parse response", list |-> <<>>, requests |-> reply.requests]
    ELSE [err |-> "", list |-> reply.body.list, requests |-> reply.requests]

\* Api.GetStatusList (lines 341-353); params is nil
GetStatusList(up) == decoded(baseExecuteRequest("status.json", <<>>, up))

\* Api.GetChannels (lines 420-446); the copy of the body written to
\* channel_response.txt is left out, its failure is only logged
GetChannels(objid, up) ==
    decoded(baseExecuteRequest("historicdata.json",
                [content |-> "values", id |-> objid, columns |-> "value_,datetime",
                 usecaption |-> "true", count |-> "50000"], up))

(***************************************************************************)
(* part_000, lines 1-462: Datasource.query and the property resolver.      *)
(* A backend.DataResponse is [Error, Status, Frames]; beside it the        *)
(* operators return the HTTP requests issued (requests) and the field      *)
(* names handed to handlePropertyQuery (resolved).  A frame is             *)
(* [Name, Time, Value, ValueType, DisplayName].  Go values held in an      *)
(* interface{} are the records [t, f, s] of the JSON values, with the      *)
(* further types "int" and "bool" (f is 1 for true).                       *)
(***************************************************************************)
StatusBadRequest == 400

VInt(n) == [t |-> "int", f |-> n, s |-> ""]
VBool(b) == [t |-> "bool", f |-> IF b THEN 1 ELSE 0, s |-> ""]
\* float64(n) of an int n
Float64(n) == Num(10 * n)

Response(err, status, frames, requests, resolved) ==
    [Error |-> err, Status |-> status, Frames |-> frames,
     requests |-> requests, resolved |-> resolved]

\* backend.ErrDataResponse(backend.StatusBadRequest, msg)
ErrDataResponse(msg, requests, resolved) ==
    Response(msg, StatusBadRequest, <<>>, requests, resolved)

Frame(times, values, valueType, displayName) ==
    [Name |-> "response", Time |-> times, Value |-> values,
     ValueType |-> valueType, DisplayName |-> displayName]

\* cleanMessageHTML
cleanMessageHTML(message) ==
    TrimSpace(RemoveAll(RemoveAll(RemoveAll(message,
        "<div class=\"status\">"), "<div class=\"moreicon\">"), "</div>"))

\* Datasource.isValidPropertyType
isValidPropertyType(propertyType) ==
    ToLower(propertyType) \in
        {"group", "device", "sensor", "status", "status_raw", "message", "message_raw",
         "active", "active_raw", "priority", "priority_raw", "tags", "tags_raw"}

\* the field switch of the group and device loops (lines 163-186, 209-231):
\* the value, or nil when no case matches
groupValue(g, filterProperty) ==
    CASE filterProperty = "active"       -> VBool(g.Active)
      [] filterProperty = "active_raw"   -> VInt(g.ActiveRAW)
      [] filterProperty = "message"      -> Str(cleanMessageHTML(g.Message))
      [] filterProperty = "message_raw"  -> Str(g.MessageRAW)
      [] filterProperty = "priority"     -> Str(g.Priority)
      [] filterProperty = "priority_raw" -> VInt(g.PriorityRAW)
      [] filterProperty = "status"       -> Str(g.Status)
      [] filterProperty = "status_raw"   -> VInt(g.StatusRAW)
      [] filterProperty = "tags"         -> Str(g.Tags)
      [] filterProperty = "tags_raw"     -> Str(g.TagsRAW)
      [] OTHER                           -> JNull

\* the field switch of the sensor loop (lines 263-296)
sensorValue(sn, filterProperty) ==
    CASE filterProperty = "status"       -> Str(sn.Status)
      [] filterProperty = "status_raw"   -> Float64(sn.StatusRAW)
      [] filterProperty = "active"       -> VBool(sn.Active)
      [] filterProperty = "active_raw"   -> Float64(sn.ActiveRAW)
      [] filterProperty = "priority"     -> Str(sn.Priority)
      [] filterProperty = "priority_raw" -> Float64(sn.PriorityRAW)
      [] filterProperty = "message"      -> Str(cleanMessageHTML(sn.Message))
      [] filterProperty = "message_raw"  -> Str(sn.MessageRAW)
      [] filterProperty = "tags"         -> Str(sn.Tags)
      [] filterProperty = "tags_raw"     -> Str(sn.TagsRAW)
      [] OTHER                           -> JNull

\* the name a record of the kind carries
entityName(kind, e) ==
    IF kind = "group" THEN e.Group ELSE IF kind = "device" THEN e.Device ELSE e.Sensor

\* the name the query asks for
wantedName(kind, qm) ==
    IF kind = "group" THEN qm.Group ELSE IF kind = "device" THEN qm.Device ELSE qm.Sensor

\* the loops over groups.Groups, devices.Devices, sensors.Sensors
\* (lines 155-194, 202-239, 252-308): [times, values]
RECURSIVE propertyLoop(_, _, _, _, _, _, _)
propertyLoop(kind, list, qm, filterProperty, i, times, values) ==
    IF i > Len(list) THEN [times |-> times, values |-> values]
    ELSE LET e      == list[i]
             parsed == parsePRTGDateTime(e.Datetime)
             value  == IF kind = "sensor" THEN sensorValue(e, filterProperty)
                       ELSE groupValue(e, filterProperty)
         IN  IF entityName(kind, e) = wantedName(kind, qm) /\ parsed.ok /\ value.t # "nil"
             THEN propertyLoop(kind, list, qm, filterProperty, i + 1,
                               Append(times, parsed.time), Append(values, value))
             ELSE propertyLoop(kind, list, qm, filterProperty, i + 1, times, values)

\* fmt.Sprintf("%v", v)
Sprint(v) ==
    IF v.t = "bool" THEN (IF v.f = 1 THEN "true" ELSE "false") ELSE v.s

\* the value field of the frame (lines 316-346): typed by values[0]
valueColumn(values) ==
    IF values[1].t \in {"float64", "int"}
    THEN [type |-> "float64",
          col  |-> [i \in 1..Len(values) |->
                       IF values[i].t = "int" THEN Float64(values[i].f)
                       ELSE IF values[i].t = "float64" THEN values[i]
                       ELSE Num(0)]]
    ELSE IF values[1].t = "string"
    THEN [type |-> "string", col |-> values]
    ELSE [type |-> "string", col |-> [i \in 1..Len(values) |-> Str(Sprint(values[i]))]]

\* Datasource.handlePropertyQuery(qm, filterProperty)
handlePropertyQuery(qm, filterProperty, up) ==
    LET kind    == qm.Property
        fetched == IF kind = "group" THEN GetGroups(up)
                   ELSE IF kind = "device" THEN GetDevices(up)
                   ELSE GetSensors(up)
        found   == propertyLoop(kind, fetched.list, qm, filterProperty, 1, <<>>, <<>>)
        column  == valueColumn(found.values)
        displayName == qm.Property \o " - " \o qm.Sensor \o " (" \o filterProperty \o ")"
    IN  IF ~isValidPropertyType(qm.Property)
        THEN ErrDataResponse("Invalid property type", <<>>, <<filterProperty>>)
        ELSE IF kind \notin {"group", "device", "sensor"}
        THEN Response("", 0, <<>>, <<>>, <<filterProperty>>)
        ELSE IF fetched.err # ""
        THEN ErrDataResponse("API request failed: " \o fetched.err,
                             fetched.requests, <<filterProperty>>)
        ELSE IF Len(found.times) > 0 /\ Len(found.values) > 0
        THEN Response("", 0,
                      <<Frame(found.times, column.col, column.type, displayName)>>,
                      fetched.requests, <<filterProperty>>)
        ELSE Response("", 0, <<>>, fetched.requests, <<filterProperty>>)

RECURSIVE metricsLoop_noCoerce(_, _, _, _, _)
RECURSIVE metricsLoop_valueOnly(_, _, _, _, _)
RECURSIVE metricsLoop(_, _, _, _, _)

\* the metrics loop with a string case that appends the value and forgets
\* the time
metricsLoop_valueOnly(HistData, channel, i, times, values) ==
    IF i > Len(HistData) THEN [times |-> times, values |-> values]
    ELSE LET item   == HistData[i]
             parsed == parsePRTGDateTime(item.Datetime)
             val    == item.Value[channel]
         IN  IF ~parsed.ok
             THEN metricsLoop_valueOnly(HistData, channel, i + 1, times, values)
             ELSE IF channel \in DOMAIN item.Value
             THEN IF val.t = "float64"
                  THEN metricsLoop_valueOnly(HistData, channel, i + 1,
                                   Append(times, parsed.time), Append(values, Num(val.f)))
                  ELSE IF val.t = "string" /\ ParseFloat(val.s).ok
                  THEN metricsLoop_valueOnly(HistData, channel, i + 1, times,
                                   Append(values, Num(ParseFloat(val.s).f)))
                  ELSE metricsLoop_valueOnly(HistData, channel, i + 1, times, values)
             ELSE metricsLoop_valueOnly(HistData, channel, i + 1,
                              Append(times, parsed.time), Append(values, Num(0)))

\* the metrics loop without the string case: a string value drops its point
metricsLoop_noCoerce(HistData, channel, i, times, values) ==
    IF i > Len(HistData) THEN [times |-> times, values |-> values]
    ELSE LET item   == HistData[i]
             parsed == parsePRTGDateTime(item.Datetime)
             val    == item.Value[channel]
         IN  IF ~parsed.ok
             THEN metricsLoop_noCoerce(HistData, channel, i + 1, times, values)
             ELSE IF channel \in DOMAIN item.Value
             THEN IF val.t = "float64"
                  THEN metricsLoop_noCoerce(HistData, channel, i + 1,
                                   Append(times, parsed.time), Append(values, Num(val.f)))
                  ELSE metricsLoop_noCoerce(HistData, channel, i + 1, times, values)
             ELSE metricsLoop_noCoerce(HistData, channel, i + 1,
                              Append(times, parsed.time), Append(values, Num(0)))

\* the metrics loop of query (lines 68-95): [times, values]
metricsLoop(HistData, channel, i, times, values) ==
    IF i > Len(HistData) THEN [times |-> times, values |-> values]
    ELSE LET item   == HistData[i]
             parsed == parsePRTGDateTime(item.Datetime)
             val    == item.Value[channel]
         IN  IF ~parsed.ok
             THEN metricsLoop(HistData, channel, i + 1, times, values)
             ELSE IF channel \in DOMAIN item.Value
             THEN IF val.t = "float64"
                  THEN metricsLoop(HistData, channel, i + 1,
                                   Append(times, parsed.time), Append(values, Num(val.f)))
                  ELSE IF val.t = "string" /\ ParseFloat(val.s).ok
                  THEN metricsLoop(HistData, channel, i + 1, Append(times, parsed.time),
                                   Append(values, Num(ParseFloat(val.s).f)))
                  ELSE metricsLoop(HistData, channel, i + 1, times, values)
             ELSE metricsLoop(HistData, channel, i + 1,
                              Append(times, parsed.time), Append(values, Num(0)))

\* the display name of a metric frame (lines 97-108)
metricDisplayName(qm) ==
    Join((IF qm.IncludeGroupName /\ qm.Group # "" THEN <<qm.Group>> ELSE <<>>)
         \o (IF qm.IncludeDeviceName /\ qm.Device # "" THEN <<qm.Device>> ELSE <<>>)
         \o (IF qm.IncludeSensorName /\ qm.Sensor # "" THEN <<qm.Sensor>> ELSE <<>>)
         \o <<qm.Channel>>, " - ")

\* the suffix appended whether or not it is already there
rawProperty_always(filterProperty) == filterProperty \o "_raw"

\* the "_raw" suffix rule of the raw case (lines 125-128)
rawProperty(filterProperty) ==
    IF ~HasSuffix(filterProperty, "_raw") THEN filterProperty \o "_raw" ELSE filterProperty

\* Datasource.query(ctx, pCtx, query)
query(json, qm, from, to, up) ==
    LET historicalData == GetHistoricalData(qm.ObjectId, from, to, up)
        series == metricsLoop(historicalData.HistData, qm.Channel, 1, <<>>, <<>>)
    IN  IF ~json
        THEN ErrDataResponse("JSON unmarshal error", <<>>, <<>>)
        ELSE IF qm.QueryType = "metrics"
        THEN IF historicalData.err # ""
             THEN ErrDataResponse("API request failed: " \o historicalData.err,
                                  historicalData.requests, <<>>)
             ELSE Response("", 0,
                      <<Frame(series.times, series.values, "float64", metricDisplayName(qm))>>,
                      historicalData.requests, <<>>)
        ELSE IF qm.QueryType = "text"
        THEN handlePropertyQuery(qm, qm.FilterProperty, up)
        ELSE IF qm.QueryType = "raw"
        THEN handlePropertyQuery(qm, rawProperty(qm.FilterProperty), up)
        ELSE ErrDataResponse("Unknown query type: " \o qm.QueryType, <<>>, <<>>)


(***************************************************************************)
(* part_000, the PRTGDatasource revision (lines 464-638).                  *)
(***************************************************************************)
\* isValidPropertyType (lines 578-585)
isValidPropertyTypePRTG(propertyType) == propertyType \in {"group", "device", "sensor"}

\* PRTGDatasource.getPropertyValue (lines 587-615)
getPropertyValue(property, item) ==
    CASE property = "status"   -> item.Status
      [] property = "message"  -> item.Message
      [] property = "active"   -> (IF item.Active THEN "true" ELSE "false")
      [] property = "priority" -> FormatInt(item.PriorityRAW)
      [] property = "tags"     -> item.Tags
      [] OTHER                 -> "Unknown"

\* PRTGDatasource.createFields (lines 617-637), as the frame that receives them
createFields(timestamp, filterProperty, value, group, device, sensor) ==
    Frame(<<timestamp>>, <<Str(value)>>, "string",
          Join((IF group # "" THEN <<group>> ELSE <<>>)
               \o (IF device # "" THEN <<device>> ELSE <<>>)
               \o (IF sensor # "" THEN <<sensor>> ELSE <<>>)
               \o <<filterProperty>>, " - "))

\* the first record of the list that carries the wanted name; 0 when none does
RECURSIVE firstNamed(_, _, _, _)
firstNamed(kind, list, qm, i) ==
    IF i > Len(list) THEN 0
    ELSE IF entityName(kind, list[i]) = wantedName(kind, qm) THEN i
    ELSE firstNamed(kind, list, qm, i + 1)

\* the message of the nil check of each kind (lines 515, 537, 559)
notFound(kind) ==
    IF kind = "group" THEN "Gruppe nicht gefunden"
    ELSE IF kind = "device" THEN "Geraet nicht gefunden"
    ELSE "Sensor nicht gefunden"

\* PRTGDatasource.handlePropertyQuery(qm, filterProperty) (lines 490-576)
handlePropertyQueryPRTG(qm, filterProperty, up) ==
    LET fp      == IF filterProperty = "" THEN "status" ELSE filterProperty
        kind    == qm.Property
        fetched == IF kind = "group" THEN GetGroups(up)
                   ELSE IF kind = "device" THEN GetDevices(up)
                   ELSE GetSensors(up)
        at      == firstNamed(kind, fetched.list, qm, 1)
        info    == fetched.list[at]
        parsed  == parsePRTGDateTime(info.Datetime)
    IN  IF ~isValidPropertyTypePRTG(qm.Property)
        THEN ErrDataResponse("Ungueltiger Eigenschaftstyp", <<>>, <<>>)
        ELSE IF fetched.err # ""
        THEN ErrDataResponse("API Anfrage fehlgeschlagen: " \o fetched.err,
                             fetched.requests, <<fp>>)
        ELSE IF at = 0
        THEN ErrDataResponse(notFound(kind), fetched.requests, <<fp>>)
        ELSE IF ~parsed.ok
        THEN ErrDataResponse("Datum parsen fehlgeschlagen", fetched.requests, <<fp>>)
        ELSE Response("", 0,
                 <<createFields(parsed.time, fp, getPropertyValue(fp, info),
                                info.Group,
                                IF kind = "group" THEN "" ELSE info.Device,
                                IF kind = "sensor" THEN info.Sensor ELSE "")>>,
                 fetched.requests, <<fp>>)

(***************************************************************************)
(* datasource.go, second revision (lines 478-885).                         *)
(***************************************************************************)
\* parsePRTGDateTime (lines 557-591): "DD.MM.YYYY HH:mm:ss" rewritten as
\* "YYYY-MM-DD HH:mm:ss"; [ok, s].  The log file it appends to is left out.
parsePRTGDateTimeRev2(datetime) ==
    LET parts     == Split(datetime, " ")
        dateParts == Split(parts[1], ".")
    IN  IF Len(parts) # 2
        THEN [ok |-> FALSE, s |-> "", err |-> "invalid datetime format: " \o datetime]
        ELSE IF Len(dateParts) # 3
        THEN [ok |-> FALSE, s |-> "", err |-> "invalid date format: " \o parts[1]]
        ELSE [ok |-> TRUE,
              s  |-> dateParts[3] \o "-" \o dateParts[2] \o "-" \o dateParts[1]
                         \o " " \o parts[2],
              err |-> ""]

\* time.Parse("2006-01-02 15:04:05", s): [ok, unix]
ParseSpaced(s) ==
    ClockOf(/\ Len(s) = 19
            /\ At(s, 5) = "-" /\ At(s, 8) = "-" /\ At(s, 11) = " "
            /\ At(s, 14) = ":" /\ At(s, 17) = ":",
            NumAt(s, 1, 4), NumAt(s, 6, 7), NumAt(s, 9, 10),
            NumAt(s, 12, 13), NumAt(s, 15, 16), NumAt(s, 18, 19))

\* Time.Unix() of an instant, handed on as an int64: whole seconds
UnixSeconds(t) == t.h * 3600 + t.ms \div 1000

\* an int64 n read as milliseconds since the epoch
AsMillis(n) == Millis(n \div MsPerHour, n % MsPerHour)

\* row i of the preallocated series (lines 639-665): both slots keep their
\* zero value unless the date parses and the channel holds a float64
rowRev2(point, channel) ==
    LET formatted == parsePRTGDateTimeRev2(point.Datetime)
        t         == ParseSpaced(formatted.s)
    IN  IF /\ formatted.ok
           /\ t.ok
           /\ channel \in DOMAIN point.Value
           /\ point.Value[channel].t = "float64"
        THEN [time |-> TimeAt(t.unix), value |-> Num(point.Value[channel].f)]
        ELSE [time |-> ZeroTime, value |-> Num(0)]

\* the display name (lines 668-682)
displayNameRev2(qm) ==
    IF qm.IncludeGroupName \/ qm.IncludeDeviceName \/ qm.IncludeSensorName
    THEN Join((IF qm.IncludeGroupName /\ qm.Group # "" THEN <<qm.Group>> ELSE <<>>)
              \o (IF qm.IncludeDeviceName /\ qm.Device # "" THEN <<qm.Device>> ELSE <<>>)
              \o (IF qm.IncludeSensorName /\ qm.Sensor # "" THEN <<qm.Sensor>> ELSE <<>>)
              \o <<qm.Channel>>, " - ")
    ELSE qm.Channel

\* Datasource.query (lines 593-694)
queryRev2(json, qm, from, to, up) ==
    LET fromTime == UnixSeconds(from)
        toTime   == UnixSeconds(to)
        historicalData == GetHistoricalData(qm.ObjectId, AsMillis(fromTime),
                                            AsMillis(toTime), up)
        hist == historicalData.HistData
    IN  IF ~json
        THEN ErrDataResponse("json unmarshal", <<>>, <<>>)
        ELSE IF qm.ObjectId = "" \/ qm.Channel = ""
        THEN Response("", 0, <<>>, <<>>, <<>>)
        ELSE IF historicalData.err # ""
        THEN Response(historicalData.err, 0, <<>>, historicalData.requests, <<>>)
        ELSE IF Len(hist) = 0
        THEN Response("no data found for sensor", 0, <<>>, historicalData.requests, <<>>)
        ELSE Response("", 0,
                 <<Frame([i \in 1..Len(hist) |-> rowRev2(hist[i], qm.Channel).time],
                         [i \in 1..Len(hist) |-> rowRev2(hist[i], qm.Channel).value],
                         "float64", displayNameRev2(qm))>>,
                 historicalData.requests, <<>>)


(***************************************************************************)
(* datasource.go, first revision: parsePRTGDateTime (lines 81-113).        *)
(***************************************************************************)
\* strconv.Atoi with its error dropped: the number of an optionally signed
\* run of digits, 0 for any other text
Atoi(s) ==
    LET signed == Len(s) > 1 /\ At(s, 1) \in {"+", "-"}
        digits == IF signed THEN SubSeq(s, 2, Len(s)) ELSE s
    IN  IF ~AllDigits(digits) THEN 0
        ELSE IF signed /\ At(s, 1) = "-" THEN 0 - DecVal(digits)
        ELSE DecVal(digits)

\* time.Date(year, month, day, hour, min, sec, 0, loc): fields outside their
\* range are carried over.  The instant is [day, sec]: the days since
\* 1970-01-01 and the second of that day, both in UTC; offset is what loc
\* adds to UTC, in seconds.
Date(year, month, day, hour, min, sec, offset) ==
    LET y    == year + (month - 1) \div 12
        m    == ((month - 1) % 12) + 1
        secs == hour * 3600 + min * 60 + sec - offset
    IN  [day |-> DaysFromCivil(y, m, 1) + day - 1 + secs \div 86400,
         sec |-> secs % 86400]

\* parsePRTGDateTime (lines 81-113): [ok, time, err]; offset is time.Local
parsePRTGDateTimeRev1(datetime, offset) ==
    LET parts     == Split(datetime, " ")
        dateParts == Split(parts[1], ".")
        timeParts == Split(parts[2], ":")
        NoTime    == [day |-> 0, sec |-> 0]
    IN  IF Len(parts) # 2
        THEN [ok |-> FALSE, time |-> NoTime,
              err |-> "invalid datetime format: " \o datetime]
        ELSE IF Len(dateParts) # 3
        THEN [ok |-> FALSE, time |-> NoTime,
              err |-> "invalid date format: " \o parts[1]]
        ELSE IF Len(timeParts) # 3
        THEN [ok |-> FALSE, time |-> NoTime,
              err |-> "invalid time format: " \o parts[2]]
        ELSE [ok |-> TRUE,
              time |-> Date(Atoi(dateParts[3]), Atoi(dateParts[2]), Atoi(dateParts[1]),
                            Atoi(timeParts[1]), Atoi(timeParts[2]), Atoi(timeParts[3]),
                            offset),
              err |-> ""]

\* the metrics loop of the first revision's query (lines 141-161): [times,
\* values]; a point enters with its time and its "Antwortzeit" number
RECURSIVE metricsLoopRev1(_, _, _, _, _)
metricsLoopRev1(HistData, offset, i, times, values) ==
    IF i > Len(HistData) THEN [times |-> times, values |-> values]
    ELSE LET point     == HistData[i]
             timestamp == parsePRTGDateTimeRev1(point.Datetime, offset)
         IN  IF /\ timestamp.ok
                /\ "Antwortzeit" \in DOMAIN point.Value
                /\ point.Value["Antwortzeit"].t = "float64"
             THEN metricsLoopRev1(HistData, offset, i + 1,
                                  Append(times, timestamp.time),
                                  Append(values, Num(point.Value["Antwortzeit"].f)))
             ELSE metricsLoopRev1(HistData, offset, i + 1, times, values)

\* Datasource.query, first revision (lines 115-178).  The fetcher it calls
\* takes a fourth argument that no revision of prtg_api.go has; the first
\* revision's GetHistoricalData stands for it.
queryRev1(json, qm, from, to, up, offset) ==
    LET historicalData == GetHistoricalDataRev1(qm.ObjectId, from, to, up)
        series == metricsLoopRev1(historicalData.HistData, offset, 1, <<>>, <<>>)
    IN  IF ~json
        THEN ErrDataResponse("json unmarshal", <<>>, <<>>)
        ELSE IF qm.QueryType # "metrics"
        THEN ErrDataResponse("unknown query type: " \o qm.QueryType, <<>>, <<>>)
        ELSE IF qm.ObjectId = ""
        THEN ErrDataResponse("missing objid parameter", <<>>, <<>>)
        ELSE IF historicalData.err # ""
        THEN ErrDataResponse(historicalData.err, historicalData.requests, <<>>)
        ELSE Response("", 0,
                 <<Frame(series.times, series.values, "float64", "Response Time")>>,
                 historicalData.requests, <<>>)

(***************************************************************************)
(* Datasource.CallResource (datasource.go).  The outcome is [sent,         *)
(* requests]: the responses handed to the sender, each [Status, Body], and *)
(* the HTTP requests issued.                                               *)
(***************************************************************************)
StatusNotFound == 404
StatusInternalServerError == 500

\* sender.Send of one response
Send(status, body, requests) ==
    [sent |-> <<[Status |-> status, Body |-> body]>>, requests |-> requests]

\* the 400 answer of a path without an object id
missingObjid == Send(StatusBadRequest, "missing objid parameter", <<>>)

\* handleGetGroups, handleGetDevices, handleGetSensors (lines 304-380): the
\* fetcher's error as 500, its listing as 200
handleFetched(err, requests) ==
    IF err # ""
    THEN Send(StatusInternalServerError, err, requests)
    ELSE Send(StatusOK, "json", requests)

\* handleGetChannel (lines 382-428)
handleGetChannel(objid, up) ==
    LET channels == GetChannels(objid, up)
    IN  IF objid = "" THEN missingObjid
        ELSE handleFetched(channels.err, channels.requests)

\* handleGetHistorical (lines 430-476): the last 24 hours of the sensor.  The
\* fetcher it calls takes a fourth argument that no revision of prtg_api.go
\* has; the second revision's GetHistoricalData stands for it.
handleGetHistorical(objid, up) ==
    LET historicalData == GetHistoricalData(objid, Millis(0, 0), Millis(24, 0), up)
    IN  IF objid = "" THEN missingObjid
        ELSE handleFetched(historicalData.err, historicalData.requests)

\* the three listings of either revision
handleListing(segment, up) ==
    LET fetched == IF segment = "groups" THEN GetGroups(up)
                   ELSE IF segment = "devices" THEN GetDevices(up)
                   ELSE GetSensors(up)
    IN  handleFetched(fetched.err, fetched.requests)

\* Datasource.CallResource, first revision (lines 258-302)
CallResource(Path, up) ==
    LET pathParts == Split(Path, "/")
    IN  IF pathParts[1] \in {"groups", "devices", "sensors"}
        THEN handleListing(pathParts[1], up)
        ELSE IF pathParts[1] = "channels"
        THEN IF Len(pathParts) < 2 THEN missingObjid
             ELSE handleGetChannel(pathParts[2], up)
        ELSE IF pathParts[1] = "historical"
        THEN IF Len(pathParts) < 2 THEN missingObjid
             ELSE handleGetHistorical(pathParts[2], up)
        ELSE Send(StatusNotFound, "", <<>>)

\* Datasource.CallResource, second revision (lines 726-756)
CallResourceRev2(Path, up) ==
    LET pathParts == Split(Path, "/")
    IN  IF pathParts[1] \in {"groups", "devices", "sensors"}
        THEN handleListing(pathParts[1], up)
        ELSE IF pathParts[1] = "channels"
        THEN IF Len(pathParts) < 2 THEN missingObjid
             ELSE handleGetChannel(pathParts[2], up)
        ELSE Send(StatusNotFound, "", <<>>)

(***************************************************************************)
(* Datasource.GetPropertyValue (part_000, lines 370-434).  An item is a    *)
(* struct value: a function from the names of its fields to [tag, v], the  *)
(* JSON tag of the field and its typed value.                              *)
(***************************************************************************)
\* the first of the names that is a field of the item; "" when none is
RECURSIVE firstField(_, _, _)
firstField(item, names, i) ==
    IF i > Len(names) THEN ""
    ELSE IF names[i] \in DOMAIN item THEN names[i]
    ELSE firstField(item, names, i + 1)

\* the switch over the type of the field's value (lines 411-433)
fieldString(val, isRawRequest, baseProperty) ==
    CASE val.t = "int"     -> FormatInt(val.f)
      [] val.t = "float64" -> FormatFloat(val.f)
      [] val.t = "bool"    -> (IF isRawRequest
                               THEN (IF val.f = 1 THEN "1" ELSE "0")
                               ELSE (IF val.f = 1 THEN "true" ELSE "false"))
      [] val.t = "string"  -> (IF ~isRawRequest /\ baseProperty = "message"
                               THEN cleanMessageHTML(val.s)
                               ELSE val.s)
      [] OTHER             -> val.s

GetPropertyValue(property, item) ==
    LET isRawRequest == HasSuffix(property, "_raw")
        baseProperty == TrimSuffix(property, "_raw")
        titled       == Title(baseProperty)
        fieldName    == IF isRawRequest THEN titled \o "_raw" ELSE titled
        field        == firstField(item,
                            <<fieldName, baseProperty, baseProperty \o "_raw",
                              ToLower(fieldName), ToUpper(fieldName),
                              baseProperty \o "_RAW">>, 1)
    IN  IF field = "" THEN "Unknown"
        ELSE fieldString(item[field].v, isRawRequest, baseProperty)

\* Datasource.createDisplayName (datasource.go, first revision, lines 206-224)
createDisplayName(qm) ==
    Join((IF qm.ObjectId # "" THEN <<"ID: " \o qm.ObjectId>> ELSE <<>>)
         \o (IF qm.IncludeGroupName /\ qm.Group # "" THEN <<qm.Group>> ELSE <<>>)
         \o (IF qm.IncludeDeviceName /\ qm.Device # "" THEN <<qm.Device>> ELSE <<>>)
         \o (IF qm.IncludeSensorName /\ qm.Sensor # "" THEN <<qm.Sensor>> ELSE <<>>)
         \o (IF qm.Channel # "" THEN <<qm.Channel>> ELSE <<>>), " - ")

(***************************************************************************)
(* Datasource.QueryData (datasource.go, lines 541-555; lines 64-78 are the  *)
(* same text).  A response is [Responses, err, handled, requests]:         *)
(* Responses maps a RefID to the result of query, err is the error         *)
(* returned beside the response, handled lists the RefIDs in the order     *)
(* query was called and requests the HTTP requests in the order issued.    *)
(***************************************************************************)
\* backend.NewQueryDataResponse()
NewQueryDataResponse ==
    [Responses |-> <<>>, err |-> "", handled |-> <<>>, requests |-> <<>>]

\* a store that drops the earlier results when a query failed
storeResponse_clearsOnError(Responses, RefID, res) ==
    IF res.Error # ""
    THEN [r \in {RefID} |-> res]
    ELSE [r \in DOMAIN Responses \cup {RefID} |->
              IF r = RefID THEN res ELSE Responses[r]]

\* response.Responses[q.RefID] = res
storeResponse(Responses, RefID, res) ==
    [r \in DOMAIN Responses \cup {RefID} |-> IF r = RefID THEN res ELSE Responses[r]]

\* for _, q := range req.Queries { ... }
RECURSIVE QueryDataLoop(_, _)
QueryDataLoop(Queries, response) ==
    IF Queries = <<>>
    THEN response
    ELSE LET q   == Head(Queries)
             res == queryRev2(q.json, q.qm, q.from, q.to, q.up)
         IN  QueryDataLoop(Tail(Queries),
                [Responses |-> storeResponse(response.Responses, q.RefID, res),
                 err       |-> response.err,
                 handled   |-> Append(response.handled, q.RefID),
                 requests  |-> response.requests \o res.requests])

QueryData(Queries) == QueryDataLoop(Queries, NewQueryDataResponse)

(***************************************************************************)
(* The Api object shared by the queries of one Datasource (prtg_api.go,    *)
(* second revision).  Of its fields only timeout is ever written after     *)
(* construction; it is a whole number of seconds, 0 for no limit.          *)
(***************************************************************************)
\* NewApi (lines 260-266), the fields that change
NewApi(requestTimeout) == [timeout |-> requestTimeout]

\* Api.SetTimeout (lines 288-292)
SetTimeout(a, timeout) == IF timeout > 0 THEN [a EXCEPT !.timeout = timeout] ELSE a

\* client.Do under http.Client{Timeout: timeout} (lines 301-318): an answer
\* that takes longer than the limit is a failed request
Delivered(up, delay, timeout) ==
    IF timeout > 0 /\ delay > timeout THEN NoAnswer ELSE up

(***************************************************************************)
(* Calls.  A call names the operation (op), the query model it is given    *)
(* (qm), the time range (from, to) and the server's answer (up) to the     *)
(* HTTP request it may issue.                                              *)
(***************************************************************************)
\* the zero value of queryModel (types.go)
ZeroQm ==
    [QueryType |-> "", ObjectId |-> "", Group |-> "", Device |-> "", Sensor |-> "",
     Channel |-> "", Property |-> "", FilterProperty |-> "",
     IncludeGroupName |-> FALSE, IncludeDeviceName |-> FALSE,
     IncludeSensorName |-> FALSE]

\* json is FALSE when the query's JSON does not decode into a queryModel
Call(op, json, qm, from, to, up) ==
    [op |-> op, json |-> json, qm |-> qm, from |-> from, to |-> to, up |-> up,
     RefID |-> "A", arg |-> <<>>]

\* a call of an operation that takes other arguments (arg)
CallWith(op, arg, up) ==
    [Call(op, TRUE, ZeroQm, Millis(0, 0), Millis(0, 0), up) EXCEPT !.arg = arg]

\* what a finished call leaves in `done`
Finished(c, err, status, frames, hist, requests, resolved) ==
    [call |-> c, Error |-> err, Status |-> status, Frames |-> frames,
     HistData |-> hist, requests |-> requests, resolved |-> resolved, ret |-> <<>>]

\* what a finished call leaves when it returns a value of another kind (ret)
FinishedWith(c, err, requests, ret) ==
    [Finished(c, err, 0, <<>>, <<>>, requests, <<>>) EXCEPT !.ret = ret]

\* the records of the four kinds of result
FinishedResponse(c, r) ==
    Finished(c, r.Error, r.Status, r.Frames, <<>>, r.requests, r.resolved)

FinishedHist(c, r) == Finished(c, r.err, 0, <<>>, r.HistData, r.requests, <<>>)

FinishedReturn(c, r) == FinishedWith(c, r.err, r.requests, r)

FinishedSent(c, r) == FinishedWith(c, "", r.requests, r.sent)

Ready(op) == todo # <<>> /\ Head(todo).op = op

Finish(rec) == done' = Append(done, rec) /\ todo' = Tail(todo) /\ api' = api

\* a direct call of Api.GetHistoricalData (second revision)
DoGetHistoricalData ==
    /\ Ready("GetHistoricalData")
    /\ LET c == Head(todo)
       IN  Finish(FinishedHist(c,
               GetHistoricalData(c.qm.ObjectId, c.from, c.to, c.up)))

\* a direct call of Api.GetHistoricalData (first revision)
DoGetHistoricalDataRev1 ==
    /\ Ready("GetHistoricalDataRev1")
    /\ LET c == Head(todo)
       IN  Finish(FinishedHist(c,
               GetHistoricalDataRev1(c.qm.ObjectId, c.from, c.to, c.up)))

\* a direct call of Api.baseExecuteRequest (second revision)
DoBaseExecuteRequest ==
    /\ Ready("baseExecuteRequest")
    /\ LET c == Head(todo)
           r == baseExecuteRequest(c.arg.endpoint, c.arg.params, c.up)
       IN  Finish(FinishedWith(c, r.err, r.requests, r.body))

\* a direct call of Api.baseExecuteRequest (first revision)
DoBaseExecuteRequestRev1 ==
    /\ Ready("baseExecuteRequestRev1")
    /\ LET c == Head(todo)
           r == baseExecuteRequestRev1(c.arg.endpoint, c.arg.params, c.up)
       IN  Finish(FinishedWith(c, r.err, r.requests, r.body))

\* direct calls of the entity fetchers, of GetStatusList and of GetChannels
DoGetGroups ==
    /\ Ready("GetGroups")
    /\ LET c == Head(todo)  r == GetGroups(c.up)
       IN  Finish(FinishedWith(c, r.err, r.requests, r.list))

DoGetDevices ==
    /\ Ready("GetDevices")
    /\ LET c == Head(todo)  r == GetDevices(c.up)
       IN  Finish(FinishedWith(c, r.err, r.requests, r.list))

DoGetSensors ==
    /\ Ready("GetSensors")
    /\ LET c == Head(todo)  r == GetSensors(c.up)
       IN  Finish(FinishedWith(c, r.err, r.requests, r.list))

DoGetStatusList ==
    /\ Ready("GetStatusList")
    /\ LET c == Head(todo)  r == GetStatusList(c.up)
       IN  Finish(FinishedWith(c, r.err, r.requests, r.list))

DoGetChannels ==
    /\ Ready("GetChannels")
    /\ LET c == Head(todo)  r == GetChannels(c.arg.objid, c.up)
       IN  Finish(FinishedWith(c, r.err, r.requests, r.list))

\* Datasource.QueryData, called with the queries of the request
DoQueryData ==
    /\ Ready("QueryData")
    /\ LET c == Head(todo)
       IN  Finish(FinishedReturn(c, QueryData(c.arg)))

\* a direct call of Datasource.createDisplayName
DoCreateDisplayName ==
    /\ Ready("createDisplayName")
    /\ LET c == Head(todo)
       IN  Finish(FinishedWith(c, "", <<>>, createDisplayName(c.qm)))

\* a direct call of Datasource.GetPropertyValue
DoGetPropertyValue ==
    /\ Ready("GetPropertyValue")
    /\ LET c == Head(todo)
       IN  Finish(FinishedWith(c, "", <<>>, GetPropertyValue(c.arg.property, c.arg.item)))

\* Datasource.CallResource, called with the path of the request
DoCallResource ==
    /\ Ready("CallResource")
    /\ LET c == Head(todo)
       IN  Finish(FinishedSent(c, CallResource(c.arg, c.up)))

DoCallResourceRev2 ==
    /\ Ready("CallResourceRev2")
    /\ LET c == Head(todo)
       IN  Finish(FinishedSent(c, CallResourceRev2(c.arg, c.up)))

\* direct calls of parsePRTGDateTime (datasource.go, both revisions)
DoParsePRTGDateTimeRev1 ==
    /\ Ready("parsePRTGDateTimeRev1")
    /\ LET c == Head(todo)
           r == parsePRTGDateTimeRev1(c.arg.datetime, c.arg.offset)
       IN  Finish(FinishedWith(c, r.err, <<>>, r))

DoParsePRTGDateTimeRev2 ==
    /\ Ready("parsePRTGDateTimeRev2")
    /\ LET c == Head(todo)
           r == parsePRTGDateTimeRev2(c.arg.datetime)
       IN  Finish(FinishedWith(c, r.err, <<>>, r))

\* a direct call of cleanMessageHTML
DoCleanMessageHTML ==
    /\ Ready("cleanMessageHTML")
    /\ LET c == Head(todo)
       IN  Finish(FinishedWith(c, "", <<>>, cleanMessageHTML(c.arg)))

\* queries and SetTimeout calls running concurrently on one Api: any of the
\* pending calls takes the next step.  A query reads a.timeout when it
\* builds its client (line 302) without synchronisation; it sees the value
\* of the field before or after a concurrent write.
Without(q, k) == SubSeq(q, 1, k - 1) \o SubSeq(q, k + 1, Len(q))

DoConcurrentQuery ==
    \E k \in DOMAIN todo :
        /\ todo[k].op = "queryRev2"
        /\ LET c == todo[k]
           IN  done' = Append(done, FinishedResponse(c,
                          queryRev2(c.json, c.qm, c.from, c.to,
                                    Delivered(c.up, c.arg.delay, api.timeout))))
        /\ todo' = Without(todo, k)
        /\ api' = api

DoSetTimeout ==
    \E k \in DOMAIN todo :
        /\ todo[k].op = "SetTimeout"
        /\ api' = SetTimeout(api, todo[k].arg.timeout)
        /\ done' = Append(done, FinishedWith(todo[k], "", <<>>, <<>>))
        /\ todo' = Without(todo, k)

\* a direct call of Api.buildApiUrl
DoBuildApiUrl ==
    /\ Ready("buildApiUrl")
    /\ LET c == Head(todo)
           r == buildApiUrl(c.arg.baseURL, c.arg.apiKey, c.arg.method, c.arg.params)
       IN  Finish(FinishedWith(c, r.err, <<>>, r.url))

\* Datasource.query of part_000
DoQuery ==
    /\ Ready("query")
    /\ LET c == Head(todo)
       IN  Finish(FinishedResponse(c, query(c.json, c.qm, c.from, c.to, c.up)))


\* Datasource.query of datasource.go, first revision
DoQueryRev1 ==
    /\ Ready("queryRev1")
    /\ LET c == Head(todo)
       IN  Finish(FinishedResponse(c,
               queryRev1(c.json, c.qm, c.from, c.to, c.up, c.arg.offset)))

\* Datasource.query of datasource.go, second revision
DoQueryRev2 ==
    /\ Ready("queryRev2")
    /\ LET c == Head(todo)
       IN  Finish(FinishedResponse(c,
               queryRev2(c.json, c.qm, c.from, c.to, c.up)))


\* PRTGDatasource.handlePropertyQuery, called with the query's filterProperty
DoHandlePropertyQueryPRTG ==
    /\ Ready("handlePropertyQueryPRTG")
    /\ LET c == Head(todo)
       IN  Finish(FinishedResponse(c,
               handlePropertyQueryPRTG(c.qm, c.qm.FilterProperty, c.up)))


(***************************************************************************)
(* The inputs the model draws.                                             *)
(***************************************************************************)
\* spans at and around every breakpoint of both averaging switches
HourMarks == {0, 12, 24, 36, 48, 72, 168, 336, 720, 745, 1440, 2160, 2161}

Instants == {Millis(hh, m) : hh \in HourMarks, m \in {0, 1}}

ObjectIds == {"", "1234"}

\* JSON objects of a histdata list
RawPoints ==
    { [datetime |-> Str("15.02.2025 12:00:00"), value |-> Num(789)],
      [datetime |-> Str("2025-02-15T12:05:00Z"), value |-> Str("78.9")],
      [datetime |-> Str("15.02.2025 12:10:00"), value |-> Str("n/a")],
      [datetime |-> Str("15.02.2025 12:15:00"), percent |-> Num(55)],
      [datetime |-> Str("yesterday"), value |-> Num(12)],
      [datetime |-> Str("15.02.2025 12:20:00"), value |-> JNull] }

RECURSIVE SeqsUpTo(_, _)
SeqsUpTo(S, n) ==
    IF n = 0 THEN {<<>>}
    ELSE LET shorter == SeqsUpTo(S, n - 1)
         IN  shorter \cup {Append(q, x) : q \in {r \in shorter : Len(r) = n - 1}, x \in S}

HistBodies ==
    {Body(FALSE, FALSE, <<>>), Body(TRUE, FALSE, <<>>)}
        \cup {Body(TRUE, TRUE, l) : l \in SeqsUpTo(RawPoints, MaxPoints)}

\* answers to a historicdata.json request
HistAnswers ==
    {Answer(FALSE, 0, NoBody), Answer(TRUE, StatusForbidden, NoBody),
     Answer(TRUE, 500, NoBody), UnreadAnswer}
        \cup {Answer(TRUE, StatusOK, b) : b \in HistBodies}

OkHistAnswer == Answer(TRUE, StatusOK, Body(TRUE, TRUE,
                    <<[datetime |-> Str("15.02.2025 12:00:00"), value |-> Num(789)]>>))

HistOps == {"GetHistoricalData", "GetHistoricalDataRev1"}

\* time ranges: equal bounds, reversed by a millisecond, a millisecond long,
\* a day long, the longest
Ranges ==
    { <<Millis(24, 0), Millis(24, 0)>>, <<Millis(24, 1), Millis(24, 0)>>,
      <<Millis(24, 0), Millis(24, 1)>>, <<Millis(0, 0), Millis(24, 0)>>,
      <<Millis(0, 0), Millis(2161, 0)>> }

\* a call that fails validation never reads the answer: it is drawn with the
\* answers of at most one point, a call that passes with all of them
Drawn(c) == (c.qm.ObjectId # "" /\ Before(c.from, c.to)) \/ Len(c.up.body.list) <= 1

HistCalls ==
    {c \in {Call(op, TRUE, [ZeroQm EXCEPT !.ObjectId = id], r[1], r[2], up) :
                op \in HistOps, id \in ObjectIds, r \in Ranges, up \in HistAnswers} :
        Drawn(c)}

\* entity records of a listing
Entity(group, device, sensor, datetime, status, statusRaw, message) ==
    [Group |-> group, Device |-> device, Sensor |-> sensor, Datetime |-> datetime,
     Active |-> TRUE, ActiveRAW |-> 1, Message |-> message, MessageRAW |-> status,
     Priority |-> "3", PriorityRAW |-> 3, Status |-> status, StatusRAW |-> statusRaw,
     Tags |-> "core", TagsRAW |-> "core"]

Entities ==
    { Entity("Network Devices", "Router", "CPU Load", "15.02.2025 12:00:00", "Up", 3,
             "<div class=\"status\">OK</div><div class=\"moreicon\"></div>"),
      Entity("Network Devices", "Switch", "CPU Load", "2025-02-15T12:00:00Z", "Down", 5,
             " Down "),
      Entity("Lab", "Probe", "Ping", "", "Warning", 4, "Warning") }

ListBodies ==
    {Body(FALSE, FALSE, <<>>), Body(TRUE, FALSE, <<>>)}
        \cup {Body(TRUE, TRUE, l) : l \in SeqsUpTo(Entities, MaxEntities)}

\* answers to a table.json request
ListAnswers ==
    {Answer(FALSE, 0, NoBody), Answer(TRUE, StatusForbidden, NoBody),
     Answer(TRUE, 500, NoBody), UnreadAnswer}
        \cup {Answer(TRUE, StatusOK, b) : b \in ListBodies}

Channels == {"value", "Percent", ""}

\* the entity names a query carries, with its include flags
Named(qm, names, include) ==
    [qm EXCEPT !.Group = names[1], !.Device = names[2], !.Sensor = names[3],
               !.IncludeGroupName = include, !.IncludeDeviceName = include,
               !.IncludeSensorName = include]

NameTriples ==
    { <<"Network Devices", "Router", "CPU Load">>, <<"Lab", "Probe", "Ping">>,
      <<"Nowhere", "Nothing", "Nobody">> }

\* query types: the three the router knows and one it does not
QueryTypes == {"metrics", "text", "raw", "sensors"}

MetricQms ==
    { Named([ZeroQm EXCEPT !.QueryType = "metrics", !.ObjectId = id, !.Channel = ch],
            <<"Network Devices", "Router", "CPU Load">>, FALSE) :
        id \in ObjectIds, ch \in Channels }
    \cup { Named([ZeroQm EXCEPT !.QueryType = "metrics", !.ObjectId = "1234",
                                !.Channel = "value"],
                 <<"Network Devices", "", "CPU Load">>, TRUE) }

\* time ranges of the queries: equal bounds, a millisecond long, a day long
QueryRanges ==
    { <<Millis(24, 0), Millis(24, 0)>>, <<Millis(24, 0), Millis(24, 1)>>,
      <<Millis(0, 0), Millis(24, 0)>> }

Properties == {"group", "device", "sensor", "status", "Sensor", ""}

FilterProperties == {"status", "status_raw", "message", "active", "priority_raw", "_raw", ""}

PropertyQms ==
    { Named([ZeroQm EXCEPT !.QueryType = qt, !.Property = pr, !.FilterProperty = fp],
            names, FALSE) :
        qt \in {"text", "raw"}, pr \in Properties, fp \in FilterProperties,
        names \in NameTriples }

OkListAnswer == Answer(TRUE, StatusOK, Body(TRUE, TRUE,
                    <<Entity("Network Devices", "Router", "CPU Load",
                             "15.02.2025 12:00:00", "Up", 3, "OK")>>))

\* a property that names no collection fetches nothing: it is drawn with one
\* answer, a property that names one with all of them
DrawnListing(c) ==
    c.qm.Property \in {"group", "device", "sensor"} \/ c.up = OkListAnswer

\* queries of an unknown type, with and without the fields of the known ones
UnknownQms ==
    { [ZeroQm EXCEPT !.QueryType = "sensors", !.ObjectId = id, !.Channel = ch,
                     !.Property = pr, !.FilterProperty = "status", !.Sensor = "CPU Load"] :
        id \in ObjectIds, ch \in {"", "value"}, pr \in {"", "sensor"} }

QueryCalls ==
    {c \in {Call("query", TRUE, qm, r[1], r[2], up) :
                qm \in MetricQms, r \in QueryRanges, up \in HistAnswers} :
        Drawn(c)}
    \cup {c \in {Call("query", TRUE, qm, Millis(0, 0), Millis(24, 0), up) :
                     qm \in PropertyQms, up \in ListAnswers \cup {OkListAnswer}} :
             DrawnListing(c)}
    \cup {Call("query", TRUE, qm, Millis(0, 0), Millis(24, 0), up) :
        qm \in UnknownQms, up \in {OkHistAnswer, OkListAnswer}}
    \cup {Call("query", FALSE, ZeroQm, Millis(0, 0), Millis(24, 0), OkHistAnswer)}

\* the second revision has the metric strategy alone
QueryRev2Calls ==
    {c \in {Call("queryRev2", TRUE, qm, r[1], r[2], up) :
                qm \in MetricQms, r \in QueryRanges, up \in HistAnswers} :
        Drawn(c)}
    \cup {Call("queryRev2", TRUE, qm, Millis(0, 0), Millis(24, 0), up) :
        qm \in UnknownQms, up \in {OkHistAnswer, OkListAnswer}}
    \cup {Call("queryRev2", FALSE, ZeroQm, Millis(0, 0), Millis(24, 0), OkHistAnswer)}

QueryOps == {"query", "queryRev2"}

\* answers of every kind to one GET: no answer, a body that breaks off, and
\* statuses on both sides of 200
TransportAnswers ==
    {Answer(FALSE, 0, NoBody), UnreadAnswer, OkListAnswer,
     Answer(TRUE, StatusOK, Body(FALSE, FALSE, <<>>)),
     Answer(TRUE, StatusOK, Body(TRUE, FALSE, <<>>))}
        \cup {Answer(TRUE, st, NoBody) : st \in {201, 204, 301, 400, 401, StatusForbidden,
                                                  404, 500, 503}}

TransportOps == {"baseExecuteRequest", "baseExecuteRequestRev1"}

\* the queries of a request: one that yields a frame, one whose JSON does not
\* decode, one whose server answers 500 and one whose sensor has no data,
\* under a RefID of its own or under "A" again
RefIDs == <<"A", "B", "C", "D">>

GoodQuery ==
    Call("queryRev2", TRUE,
         [ZeroQm EXCEPT !.QueryType = "metrics", !.ObjectId = "1234", !.Channel = "cpu"],
         Millis(0, 0), Millis(24, 0), OkHistAnswer)

QueryKinds ==
    {GoodQuery,
     [GoodQuery EXCEPT !.json = FALSE],
     [GoodQuery EXCEPT !.up = Answer(TRUE, 500, NoBody)],
     [GoodQuery EXCEPT !.up = Answer(TRUE, StatusOK, Body(TRUE, TRUE, <<>>))]}

QueriesAt(k) == {[q EXCEPT !.RefID = id] : q \in QueryKinds, id \in {"A", RefIDs[k]}}

RECURSIVE QueryLists(_)
QueryLists(n) ==
    IF n = 0
    THEN {<<>>}
    ELSE LET shorter == QueryLists(n - 1)
         IN  shorter \cup {Append(qs, q) :
                              qs \in {l \in shorter : Len(l) = n - 1}, q \in QueriesAt(n)}

QueryDataCalls == {CallWith("QueryData", qs, NoAnswer) : qs \in QueryLists(MaxQueries)}

\* the struct of TestGetPropertyValue and a sensor record (types.go)
TestObj ==
    [Status     |-> [tag |-> "status", v |-> Str("OK")],
     Priority   |-> [tag |-> "priority", v |-> VInt(5)],
     Percentage |-> [tag |-> "percentage", v |-> Num(874)],
     RawValue   |-> [tag |-> "raw_value", v |-> VBool(TRUE)]]

SensorItem ==
    [Active      |-> [tag |-> "active", v |-> VBool(TRUE)],
     ActiveRAW   |-> [tag |-> "active_raw", v |-> VInt(1)],
     Message     |-> [tag |-> "message", v |-> Str("<div class=\"status\">OK</div>")],
     MessageRAW  |-> [tag |-> "message_raw", v |-> Str("OK")],
     Priority    |-> [tag |-> "priority", v |-> Str("3")],
     PriorityRAW |-> [tag |-> "priority_raw", v |-> VInt(3)],
     Status      |-> [tag |-> "status", v |-> Str("Up")],
     StatusRAW   |-> [tag |-> "status_raw", v |-> VInt(3)],
     DatetimeRAW |-> [tag |-> "datetime_raw", v |-> Num(454035)]]

PropertyNames ==
    {"status", "priority", "percentage", "raw_value", "invalid_property",
     "status_raw", "active", "active_raw", "message", "message_raw",
     "priority_raw", "datetime_raw", ""}

PropertyValueCalls ==
    {CallWith("GetPropertyValue", [property |-> pr, item |-> it], NoAnswer) :
        pr \in PropertyNames, it \in {TestObj, SensorItem}}

\* resource paths: the five endpoints, with and without an object id, and
\* paths that name no endpoint
Paths ==
    {"groups", "devices", "sensors", "channels", "channels/", "channels/1234",
     "historical", "historical/", "historical/1234", "invalidpath", "", "Groups"}

ResourceOps == {"CallResource", "CallResourceRev2"}

ResourceCalls ==
    {CallWith(op, path, up) :
        op \in ResourceOps, path \in Paths,
        up \in {OkListAnswer, OkHistAnswer, Answer(TRUE, 500, NoBody), NoAnswer}}

\* datetime texts: the two encodings of one instant, texts of neither
\* encoding, and texts of the dotted shape whose fields are no date
DateTexts ==
    {"15.02.2025 12:00:00", "2025-02-15T12:00:00Z", "01.01.1970 00:00:00",
     "1970-01-01T00:00:00Z", "2025-02-15 12:00:00", "yesterday", "",
     "aa.bb.cccc xx:yy:zz", "32.13.2025 25:61:61", "15.02.2025 12:00",
     "15-02-2025 12:00:00", "1.2.2025 3:04:05"}

\* what time.Local adds to UTC, in seconds
LocalOffsets == {0, 3600}

ParseOps == {"parsePRTGDateTimeRev1", "parsePRTGDateTimeRev2"}

ParseCalls ==
    {CallWith(op, [datetime |-> d, offset |-> z], NoAnswer) :
        op \in ParseOps, d \in DateTexts, z \in LocalOffsets}

\* messages: the one of TestCleanMessageHTML, plain and padded texts, and
\* texts in which a tag is split by another tag
Messages ==
    {"<div class=\"status\">OK</div><div class=\"moreicon\"></div>", "OK", "  OK ", "",
     "<div class=\"status\"> Paused </div>", "</d</div>iv>",
     "<div class=\"sta</div>tus\">OK", "a </div> b"}

CleanCalls == {CallWith("cleanMessageHTML", msg, NoAnswer) : msg \in Messages}

\* JSON points under the channel name the first revision asks for
ResponsePoints ==
    { [datetime |-> Str("15.02.2025 12:00:00"), Antwortzeit |-> Num(123)],
      [datetime |-> Str("15.02.2025 12:05:00"), Antwortzeit |-> Str("12.3")],
      [datetime |-> Str("yesterday"), Antwortzeit |-> Num(45)],
      [datetime |-> Str("aa.bb.cccc xx:yy:zz"), Antwortzeit |-> Num(67)],
      [datetime |-> Str("15.02.2025 12:10:00"), value |-> Num(789)] }

QueryRev1Calls ==
    {[Call("queryRev1", TRUE, qm, Millis(0, 0), Millis(24, 0),
           Answer(TRUE, StatusOK, Body(TRUE, TRUE, l)))
         EXCEPT !.arg = [offset |-> z]] :
        qm \in {[ZeroQm EXCEPT !.QueryType = "metrics", !.ObjectId = "1234"]},
        l \in SeqsUpTo(ResponsePoints, MaxPoints), z \in LocalOffsets}
    \cup {[Call("queryRev1", js, [ZeroQm EXCEPT !.QueryType = qt, !.ObjectId = id],
                Millis(0, 0), Millis(24, 0), up)
              EXCEPT !.arg = [offset |-> 0]] :
        js \in BOOLEAN, qt \in {"metrics", "sensors"}, id \in ObjectIds,
        up \in {OkHistAnswer, Answer(TRUE, 500, NoBody)}}

DisplayNameCalls ==
    {Call("createDisplayName", TRUE, qm, Millis(0, 0), Millis(0, 0), NoAnswer) :
        qm \in MetricQms}

FetchOps == {"GetGroups", "GetDevices", "GetSensors", "GetStatusList", "GetChannels"}

FetchCalls ==
    {CallWith(op, [objid |-> id], up) :
        op \in FetchOps, id \in ObjectIds, up \in ListAnswers \cup TransportAnswers}

\* parameter maps: nil, the maps the fetchers pass, and maps of a caller's own
ParamMaps ==
    {<<>>, TableParams("groups"), [id |-> "123"],
     [id |-> "123", apitoken |-> "other-key"], [apitoken |-> ""]}

UrlCalls ==
    {CallWith("buildApiUrl",
              [baseURL |-> b, apiKey |-> k, method |-> m, params |-> ps], NoAnswer) :
        b \in {"http://localhost", "https://prtg.example.com:8443", "://localhost"},
        k \in {"test-api-key", ""}, m \in {"getSensor", "table.json"},
        ps \in ParamMaps}

TransportCalls ==
    {CallWith(op, [endpoint |-> e, params |-> ps], up) :
        op \in TransportOps, e \in {"status.json", "table.json"},
        ps \in {<<>>, TableParams("sensors")}, up \in TransportAnswers}

PRTGCalls ==
    {c \in {Call("handlePropertyQueryPRTG", TRUE, qm, Millis(0, 0), Millis(24, 0), up) :
                qm \in {q \in PropertyQms : q.QueryType = "text"},
                up \in ListAnswers \cup {OkListAnswer}} :
        DrawnListing(c)}

Calls ==
    HistCalls \cup QueryCalls \cup QueryRev2Calls \cup PRTGCalls \cup TransportCalls
        \cup UrlCalls \cup FetchCalls \cup QueryDataCalls
        \cup DisplayNameCalls \cup PropertyValueCalls \cup ParseCalls
        \cup CleanCalls \cup QueryRev1Calls
        \cup ResourceCalls

(***************************************************************************)
(* The specifications.                                                     *)
(***************************************************************************)
Init == todo \in {<<c>> : c \in Calls} /\ done = <<>> /\ api = NewApi(0)

Next ==
    \/ DoGetHistoricalData \/ DoGetHistoricalDataRev1
    \/ DoQuery \/ DoQueryRev2 \/ DoHandlePropertyQueryPRTG
    \/ DoBaseExecuteRequest \/ DoBaseExecuteRequestRev1 \/ DoBuildApiUrl
    \/ DoQueryData \/ DoCreateDisplayName \/ DoGetPropertyValue
    \/ DoCallResource \/ DoCallResourceRev2
    \/ DoParsePRTGDateTimeRev1 \/ DoParsePRTGDateTimeRev2 \/ DoCleanMessageHTML
    \/ DoQueryRev1
    \/ DoGetGroups \/ DoGetDevices \/ DoGetSensors \/ DoGetStatusList \/ DoGetChannels

Spec == Init /\ [][Next]_vars

\* two queries and one SetTimeout call in flight on an Api built with the
\* timeout `configured`; each query's server takes `delay` seconds
Timeouts == {0, 2, 10}

ConcurrentQueries(configured) ==
    {[q EXCEPT !.RefID = id, !.arg = [delay |-> d, configured |-> configured]] :
        q \in {GoodQuery, [GoodQuery EXCEPT !.up = Answer(TRUE, 500, NoBody)]},
        id \in {"A", "B"}, d \in {1, 5}}

InitRace ==
    \E configured \in Timeouts :
        /\ api = NewApi(configured)
        /\ done = <<>>
        /\ todo \in {<<q1, q2, CallWith("SetTimeout", [timeout |-> t], NoAnswer)>> :
                        q1 \in ConcurrentQueries(configured),
                        q2 \in ConcurrentQueries(configured), t \in Timeouts}

NextRace == DoConcurrentQuery \/ DoSetTimeout

SpecRace == InitRace /\ [][NextRace]_vars

\* two calls of the historical data fetcher, one after the other, each with
\* an object id and a server that answers
AvgCalls ==
    {Call(op, TRUE, [ZeroQm EXCEPT !.ObjectId = "1234"], f, t, OkHistAnswer) :
        op \in HistOps, f \in {Millis(0, 0), Millis(12, 1)}, t \in Instants}

InitAvg ==
    /\ todo \in {<<c1, c2>> : c1 \in AvgCalls, c2 \in AvgCalls}
    /\ done = <<>>
    /\ api = NewApi(0)

NextAvg == DoGetHistoricalData \/ DoGetHistoricalDataRev1

SpecAvg == InitAvg /\ [][NextAvg]_vars

(***************************************************************************)
(* Claims about the historical data fetcher.                               *)
(***************************************************************************)
IsHistCall(d) == d.call.op \in HistOps

ValidationErrors ==
    {"invalid query: missing sensor ID",
     "invalid time range: start date must be before end date",
     "ungueltige Anfrage: Sensor-ID fehlt",
     "ungueltiger Zeitraum: Startzeit muss vor Endzeit liegen"}

NoDataErrors ==
    {"no data found for the given time range",
     "keine Daten fuer den angegebenen Zeitraum gefunden"}

ValidHistInput(c) == c.qm.ObjectId # "" /\ Before(c.from, c.to)

\* C8: GetHistoricalData called with an empty object id or with from >= to
\* (from = to included) returns a validation error, returns no data, and has
\* issued no HTTP request when it returns.
C8_ValidatesBeforeTransport ==
    \A i \in DOMAIN done :
        (IsHistCall(done[i]) /\ ~ValidHistInput(done[i].call))
            => /\ done[i].Error \in ValidationErrors
               /\ done[i].requests = <<>>
               /\ done[i].HistData = <<>>

\* C8 witness: a call with from = to and an object id, against a server that
\* would have answered with data, has ended in the range error.
C8_Witness ==
    \E i \in DOMAIN done :
        /\ done[i].call.op = "GetHistoricalData"
        /\ done[i].call.qm.ObjectId # ""
        /\ done[i].call.from = done[i].call.to
        /\ done[i].call.up.net /\ done[i].call.up.status = StatusOK
        /\ done[i].call.up.body.list # <<>>
        /\ done[i].Error = "invalid time range: start date must be before end date"

\* C9: GetHistoricalData never succeeds with zero points: a 200 answer with a
\* well-formed body whose histdata list is empty or absent ends in the
\* "no data found" error, and every successful return holds a point.
C9_NoEmptySuccess ==
    \A i \in DOMAIN done :
        IsHistCall(done[i]) =>
            /\ done[i].Error = "" => Len(done[i].HistData) >= 1
            /\ ( /\ ValidHistInput(done[i].call)
                 /\ done[i].call.up.net
                 /\ done[i].call.up.status = StatusOK
                 /\ done[i].call.up.body.json
                 /\ (~done[i].call.up.body.present \/ done[i].call.up.body.list = <<>>) )
                    => done[i].Error \in NoDataErrors

\* C9 witness: a valid call answered 200 with an empty histdata list has ended
\* in the "no data found" error.
C9_Witness ==
    \E i \in DOMAIN done :
        /\ done[i].call.op = "GetHistoricalData"
        /\ ValidHistInput(done[i].call)
        /\ done[i].call.up.status = StatusOK
        /\ done[i].call.up.body.json /\ done[i].call.up.body.present
        /\ done[i].call.up.body.list = <<>>
        /\ Len(done[i].requests) = 1
        /\ done[i].Error = "no data found for the given time range"

\* the avg parameter a finished call sent, in seconds
SentAvg(d) == DecVal(d.requests[1].params.avg)

Span(d) == Sub(d.call.to, d.call.from)

SpanLE(a, b) == a.h < b.h \/ (a.h = b.h /\ a.ms <= b.ms)

\* C10: the avg parameter GetHistoricalData sends is a monotonic
\* non-decreasing function of the span to - from: of two calls of one
\* revision that sent a request, the one with the shorter span sent the
\* smaller or equal avg; avg lies between 0 (raw data), sent for the shortest
\* span, and 86400 (daily), sent for the longest.
C10_AvgMonotonic ==
    \A i \in DOMAIN done :
        (IsHistCall(done[i]) /\ done[i].requests # <<>>) =>
            /\ AllDigits(done[i].requests[1].params.avg)
            /\ SentAvg(done[i]) >= 0 /\ SentAvg(done[i]) <= 86400
            /\ Span(done[i]) = Millis(0, 1) => SentAvg(done[i]) = 0
            /\ ~SpanLE(Span(done[i]), Millis(2160, 0)) => SentAvg(done[i]) = 86400
            /\ \A j \in DOMAIN done :
                ( /\ done[j].call.op = done[i].call.op
                  /\ done[j].requests # <<>>
                  /\ SpanLE(Span(done[i]), Span(done[j])) )
                    => SentAvg(done[i]) <= SentAvg(done[j])

\* C10 witness: two calls of the second revision, the first over 72 hours and
\* a millisecond, the second over a week, have sent avg 900 and then 900 or
\* more.
C10_Witness ==
    /\ Len(done) = 2
    /\ done[1].call.op = "GetHistoricalData" /\ done[2].call.op = "GetHistoricalData"
    /\ Span(done[1]) = Millis(72, 1) /\ Span(done[2]) = Millis(168, 0)
    /\ done[1].requests # <<>> /\ done[2].requests # <<>>
    /\ SentAvg(done[1]) = 900 /\ SentAvg(done[2]) = 900

(***************************************************************************)
(* The query router: claims C1 to C7.                                      *)
(***************************************************************************)
\* the server answered 200 with a JSON body that carries the list
Served(up) ==
    up.net /\ up.status = StatusOK /\ up.read /\ up.body.json /\ up.body.present

IsMetric(c) == c.op = "queryRev2" \/ c.qm.QueryType = "metrics"

\* C1: every result of query() is either an error with no frame or exactly
\* one frame with no error, never neither, and a metric frame has a row for
\* every point the server returned.
C1_ErrorOrCompleteFrame ==
    \A i \in DOMAIN done :
        LET r == done[i]  c == r.call IN
        c.op \in QueryOps =>
            \/ r.Error # "" /\ r.Frames = <<>>
            \/ /\ r.Error = ""
               /\ Len(r.Frames) = 1
               /\ Len(r.Frames[1].Time) = Len(r.Frames[1].Value)
               /\ Len(r.Frames[1].Time) >= 1
               /\ IsMetric(c) => Len(r.Frames[1].Time) = Len(c.up.body.list)

\* the JSON point has a datetime that parses and, under the channel's name, a
\* number or a string that parses as a float
Coercible(raw, channel) ==
    /\ "datetime" \in DOMAIN raw
    /\ raw["datetime"].t = "string"
    /\ parsePRTGDateTime(raw["datetime"].s).ok
    /\ channel \in DOMAIN raw \ {"datetime"}
    /\ \/ raw[channel].t = "float64"
       \/ raw[channel].t = "string" /\ ParseFloat(raw[channel].s).ok

RowTime(raw) == parsePRTGDateTime(raw["datetime"].s).time

RowValue(raw, channel) ==
    IF raw[channel].t = "float64" THEN Num(raw[channel].f)
    ELSE Num(ParseFloat(raw[channel].s).f)

\* C2: a Metric query with a non-empty objid whose N >= 1 upstream points all
\* have a parseable datetime and a numeric or float-parseable channel value
\* returns one frame of exactly N rows, row i being (time of point i, value
\* of point i), in upstream order.
C2_MetricRows ==
    \A i \in DOMAIN done :
        LET r == done[i]  c == r.call  pts == c.up.body.list IN
        ( /\ c.op = "query" /\ c.json
          /\ c.qm.QueryType = "metrics" /\ c.qm.ObjectId # ""
          /\ Before(c.from, c.to)
          /\ Served(c.up) /\ Len(pts) >= 1
          /\ \A k \in DOMAIN pts : Coercible(pts[k], c.qm.Channel) )
        => /\ r.Error = ""
           /\ Len(r.Frames) = 1
           /\ Len(r.Frames[1].Time) = Len(pts)
           /\ Len(r.Frames[1].Value) = Len(pts)
           /\ \A k \in DOMAIN pts :
                /\ r.Frames[1].Time[k] = RowTime(pts[k])
                /\ r.Frames[1].Value[k] = RowValue(pts[k], c.qm.Channel)

\* a number and a numeric string, in both date formats, come back as two rows
C2_Witness ==
    \E i \in DOMAIN done :
        /\ done[i].call.op = "query"
        /\ done[i].call.qm.Channel = "value"
        /\ Served(done[i].call.up)
        /\ done[i].call.up.body.list =
               << [datetime |-> Str("15.02.2025 12:00:00"), value |-> Num(789)],
                  [datetime |-> Str("2025-02-15T12:05:00Z"), value |-> Str("78.9")] >>
        /\ Len(done[i].Frames) = 1
        /\ done[i].Frames[1].Time = <<TimeAt(1739620800), TimeAt(1739621100)>>
        /\ done[i].Frames[1].Value = <<Num(789), Num(789)>>

\* C3: in a Metric query the channel lookup is case-insensitive: a point
\* whose key differs from the requested channel only in letter case yields
\* a row carrying that key's value.
C3_ChannelCaseInsensitive ==
    \A i \in DOMAIN done :
        LET r == done[i]  c == r.call  pts == c.up.body.list IN
        ( /\ c.op = "query" /\ c.json /\ c.qm.QueryType = "metrics"
          /\ r.Error = "" /\ Len(r.Frames) = 1 )
        => \A k \in DOMAIN pts : \A key \in DOMAIN pts[k] \ {"datetime"} :
              ( /\ ToLower(key) = ToLower(c.qm.Channel)
                /\ pts[k][key].t = "float64"
                /\ Coercible(pts[k], key) )
              => \E j \in DOMAIN r.Frames[1].Time :
                    /\ r.Frames[1].Time[j] = RowTime(pts[k])
                    /\ r.Frames[1].Value[j] = Num(pts[k][key].f)

\* C4: a Text or Raw query whose entity name matches no record of the fetched
\* collection ends in an error, never in a frame and never in a success
\* without a frame.
C4_UnknownNameIsNotFound ==
    \A i \in DOMAIN done :
        LET r == done[i]  c == r.call  kind == c.qm.Property IN
        ( /\ c.op \in {"query", "handlePropertyQueryPRTG"} /\ c.json
          /\ c.qm.QueryType \in {"text", "raw"}
          /\ kind \in {"group", "device", "sensor"}
          /\ Served(c.up)
          /\ \A k \in DOMAIN c.up.body.list :
                entityName(kind, c.up.body.list[k]) # wantedName(kind, c.qm) )
        => r.Error # "" /\ r.Frames = <<>>

\* C5: a Raw query hands handlePropertyQuery the filterProperty with exactly
\* one "_raw" suffix (appended when absent, kept when present, so the rule
\* is idempotent), and a Text query hands it over unchanged.
C5_RawSuffixOnce ==
    \A i \in DOMAIN done :
        LET r == done[i]  c == r.call  fp == c.qm.FilterProperty IN
        (c.op = "query" /\ c.json) =>
            /\ c.qm.QueryType = "raw" =>
                  /\ r.resolved = <<IF HasSuffix(fp, "_raw") THEN fp ELSE fp \o "_raw">>
                  /\ rawProperty(r.resolved[1]) = r.resolved[1]
                  /\ fp \in {"status", "status_raw"} => r.resolved = <<"status_raw">>
            /\ c.qm.QueryType = "text" => r.resolved = <<fp>>

\* a Raw query for "status_raw" resolves "status_raw"
C5_Witness ==
    \E i \in DOMAIN done :
        /\ done[i].call.op = "query"
        /\ done[i].call.qm.QueryType = "raw"
        /\ done[i].call.qm.FilterProperty = "status_raw"
        /\ done[i].resolved = <<"status_raw">>

\* C6: a query whose queryType is none of metrics, text, raw ends in a
\* bad-request error with no frame, and no HTTP request is made.
C6_UnknownTypeIsBadRequest ==
    \A i \in DOMAIN done :
        LET r == done[i]  c == r.call IN
        ( /\ c.op \in QueryOps /\ c.json
          /\ c.qm.QueryType \notin {"metrics", "text", "raw"} )
        => /\ r.Error # "" /\ r.Status = StatusBadRequest
           /\ r.Frames = <<>>
           /\ r.requests = <<>>

\* C7: a Metric query with an empty objid always ends in an error response,
\* with no frame and no HTTP request.
C7_EmptyObjectIdIsError ==
    \A i \in DOMAIN done :
        LET r == done[i]  c == r.call IN
        ( /\ c.op \in QueryOps /\ c.json
          /\ c.qm.QueryType = "metrics" /\ c.qm.ObjectId = "" )
        => /\ r.Error # ""
           /\ r.Frames = <<>>
           /\ r.requests = <<>>

(***************************************************************************)
(* The transport client and the fetchers: claims C11 to C13.               *)
(***************************************************************************)
IsTransportCall(d) == d.call.op \in TransportOps

AccessDenied ==
    {"access denied: please verify API token and permissions",
     "Zugriff verweigert: Bitte API-Token und Berechtigungen ueberpruefen"}

UnexpectedStatus(code) ==
    {"unexpected status code: " \o FormatInt(code),
     "unerwarteter Statuscode: " \o FormatInt(code)}

\* the error outcomes of a status: 403 is access denied, every other status
\* but 200 is the unexpected-status error with its code, and an error never
\* comes with a body
StatusErrors(d) ==
    /\ d.call.up.status = StatusForbidden => d.Error \in AccessDenied
    /\ d.call.up.status \notin {StatusOK, StatusForbidden}
          => d.Error \in UnexpectedStatus(d.call.up.status)
    /\ AccessDenied \cap UnexpectedStatus(d.call.up.status) = {}
    /\ d.Error # "" => d.ret.nil

\* C11 as stated: the transport client returns the response body if and only
\* if the HTTP status is 200; 403 yields the access-denied error, every other
\* non-200 status the unexpected-status error carrying the code, the two are
\* distinguishable, and no body is returned together with an error.
C11_BodyIffStatusOK ==
    \A i \in DOMAIN done :
        (IsTransportCall(done[i]) /\ done[i].call.up.net) =>
            /\ (~done[i].ret.nil /\ done[i].Error = "")
                  <=> done[i].call.up.status = StatusOK
            /\ StatusErrors(done[i])

\* C11 amended: the body is returned if and only if the status is 200 and
\* the body was read to its end; a 200 answer whose body cannot be read ends
\* in a read error with no body.  The error outcomes are as stated.
C11_BodyIffStatusOKAndRead ==
    \A i \in DOMAIN done :
        (IsTransportCall(done[i]) /\ done[i].call.up.net) =>
            /\ (~done[i].ret.nil /\ done[i].Error = "")
                  <=> (done[i].call.up.status = StatusOK /\ done[i].call.up.read)
            /\ ~done[i].ret.nil => done[i].ret = done[i].call.up.body
            /\ (done[i].call.up.status = StatusOK /\ ~done[i].call.up.read)
                  => done[i].Error \notin
                        {""} \cup AccessDenied \cup UnexpectedStatus(StatusOK)
            /\ StatusErrors(done[i])

\* a 200 answer whose body broke off has ended in an error with no body
C11_Witness ==
    \E i \in DOMAIN done :
        /\ done[i].call.op = "baseExecuteRequest"
        /\ done[i].call.up = UnreadAnswer
        /\ done[i].Error = "failed to read response body"
        /\ done[i].ret.nil

\* C12: for every endpoint and every parameter map, the URL built by
\* buildApiUrl is base/api/{endpoint}, and its query holds apitoken equal to
\* the configured API key together with every entry of the parameter map: no
\* parameter of the caller replaces or removes the configured token.
C12_TokenAndParams ==
    \A i \in DOMAIN done :
        LET a == done[i].call.arg  u == done[i].ret IN
        (done[i].call.op = "buildApiUrl" /\ done[i].Error = "") =>
            /\ u.base = a.baseURL
            /\ u.path = "/api/" \o a.method
            /\ "apitoken" \in DOMAIN u.query
            /\ u.query["apitoken"] = a.apiKey
            /\ \A k \in DOMAIN a.params :
                  k \in DOMAIN u.query /\ u.query[k] = a.params[k]

\* the one request of the call got no 200 answer with a readable body
RequestFailed(up) == ~up.net \/ up.status # StatusOK \/ ~up.read

Alone(q) == QueryData(<<q>>).Responses[q.RefID]

\* the last query of the request under the RefID
LastWith(qs, RefID) ==
    qs[CHOOSE k \in DOMAIN qs :
          /\ qs[k].RefID = RefID
          /\ \A j \in DOMAIN qs : qs[j].RefID = RefID => j <= k]

\* C14: QueryData handles the queries of a request one at a time in request
\* order, never returns a top-level error, and its response map holds, for
\* every RefID of the request, the result of the query with that RefID; a
\* failing query leaves the results of the other queries as they are when
\* asked alone.
C14_QueryDataPerRefID ==
    \A i \in DOMAIN done :
        done[i].call.op = "QueryData" =>
            LET qs   == done[i].call.arg
                resp == done[i].ret
            IN  /\ resp.err = "" /\ done[i].Error = ""
                /\ resp.handled = [k \in DOMAIN qs |-> qs[k].RefID]
                /\ DOMAIN resp.Responses = {qs[k].RefID : k \in DOMAIN qs}
                /\ \A r \in DOMAIN resp.Responses :
                      resp.Responses[r] = Alone(LastWith(qs, r))

\* a request of three queries under three RefIDs, the second of which
\* failed, has been answered with a frame for the first and the third
C14_Witness ==
    \E i \in DOMAIN done :
        /\ done[i].call.op = "QueryData"
        /\ Len(done[i].call.arg) = 3
        /\ done[i].ret.handled = <<"A", "B", "C">>
        /\ done[i].ret.Responses["B"].Error # ""
        /\ done[i].ret.Responses["A"].Error = ""
        /\ Len(done[i].ret.Responses["A"].Frames) = 1
        /\ done[i].ret.Responses["C"].Error = ""
        /\ Len(done[i].ret.Responses["C"].Frames) = 1

(***************************************************************************)
(* Claims about the field name of a Text or Raw query.                     *)
(***************************************************************************)
\* the field names of the switch over filterProperty
KnownFields ==
    {"status", "status_raw", "active", "active_raw", "priority", "priority_raw",
     "message", "message_raw", "tags", "tags_raw"}

IsPropertyQuery(d) ==
    \/ d.call.op = "query" /\ d.call.json /\ d.call.qm.QueryType \in {"text", "raw"}
    \/ d.call.op = "handlePropertyQueryPRTG"

\* C15: a Text or Raw query whose resolved field name is not one of the ten
\* known names ends in a bad-request error: never an empty success, never a
\* frame holding a placeholder value.
C15_UnknownFieldIsBadRequest ==
    \A i \in DOMAIN done :
        (/\ IsPropertyQuery(done[i])
         /\ done[i].resolved # <<>>
         /\ done[i].resolved[1] \notin KnownFields) =>
            /\ done[i].Error # ""
            /\ done[i].Status = StatusBadRequest
            /\ done[i].Frames = <<>>

(***************************************************************************)
(* Claims about the display label.                                         *)
(***************************************************************************)
\* the names a label starts with: each one when its flag is set and it is
\* not empty
IncludedNames(qm) ==
    (IF qm.IncludeGroupName /\ qm.Group # "" THEN <<qm.Group>> ELSE <<>>)
    \o (IF qm.IncludeDeviceName /\ qm.Device # "" THEN <<qm.Device>> ELSE <<>>)
    \o (IF qm.IncludeSensorName /\ qm.Sensor # "" THEN <<qm.Sensor>> ELSE <<>>)

\* C16: the display label of every emitted frame is the join with " - " of
\* the group, device and sensor names (each only when its include flag is
\* set and the name is non-empty) followed by the channel name (Metric) or
\* the property name (Text/Raw), and nothing else.
C16_LabelIsJoin ==
    \A i \in DOMAIN done :
        LET qm == done[i].call.qm
        IN  /\ (done[i].call.op = "query" /\ qm.QueryType = "metrics") =>
                  \A f \in DOMAIN done[i].Frames :
                      done[i].Frames[f].DisplayName
                          = Join(IncludedNames(qm) \o <<qm.Channel>>, " - ")
            /\ (done[i].call.op = "query" /\ qm.QueryType \in {"text", "raw"}) =>
                  \A f \in DOMAIN done[i].Frames :
                      done[i].Frames[f].DisplayName
                          = Join(IncludedNames(qm) \o <<done[i].resolved[1]>>, " - ")
            /\ done[i].call.op = "createDisplayName" =>
                  done[i].ret = Join(IncludedNames(qm) \o <<qm.Channel>>, " - ")

(***************************************************************************)
(* Claims about empty results.                                             *)
(***************************************************************************)
\* C17: query never returns a frame with zero rows: when processing yields
\* no (time, value) pair the outcome is an explicit no-data error, neither an
\* empty frame nor a success without a frame.
C17_NoEmptyFrame ==
    \A i \in DOMAIN done :
        done[i].call.op = "query" =>
            /\ \A f \in DOMAIN done[i].Frames : Len(done[i].Frames[f].Time) > 0
            /\ done[i].Error = "" => done[i].Frames # <<>>

(***************************************************************************)
(* Claims about GetPropertyValue.                                          *)
(***************************************************************************)
\* the fields of the item that carry the property name as their JSON name
FieldsFor(property, item) == {n \in DOMAIN item : item[n].tag = property}

\* the string forms the claim allows for a value
StringForms(val, property) ==
    CASE val.t = "int"     -> {FormatInt(val.f)}
      [] val.t = "float64" -> {FormatFloat(val.f)}
      [] val.t = "bool"    -> (IF HasSuffix(property, "_raw")
                               THEN {IF val.f = 1 THEN "1" ELSE "0"}
                               ELSE {IF val.f = 1 THEN "true" ELSE "false"})
      [] OTHER             -> {val.s, cleanMessageHTML(val.s)}

\* C18: GetPropertyValue(property, item) returns the string form of the
\* item's field that corresponds to the property name whenever the item has
\* such a field (raw_value -> RawValue, status_raw -> StatusRAW included),
\* and "Unknown" only when the item has no corresponding field.
C18_FieldOrUnknown ==
    \A i \in DOMAIN done :
        done[i].call.op = "GetPropertyValue" =>
            LET property == done[i].call.arg.property
                item     == done[i].call.arg.item
            IN  IF FieldsFor(property, item) = {}
                THEN done[i].ret = "Unknown"
                ELSE \E n \in FieldsFor(property, item) :
                        done[i].ret \in StringForms(item[n].v, property)

(***************************************************************************)
(* Claims about CallResource.                                              *)
(***************************************************************************)
Endpoints == {"groups", "devices", "sensors", "channels", "historical"}

\* the path names an endpoint that takes an object id and gives none
LacksObjid(Path) ==
    LET pathParts == Split(Path, "/")
    IN  /\ pathParts[1] \in {"channels", "historical"}
        /\ (Len(pathParts) < 2 \/ pathParts[2] = "")

\* C19: CallResource sends exactly one response for every request: 404 when
\* the first path segment is none of groups, devices, sensors, channels,
\* historical; 400 with a "missing objid parameter" body when a channels or
\* historical path has no object id or an empty one; in both cases without
\* an upstream HTTP request.
C19_OneResponse ==
    \A i \in DOMAIN done :
        done[i].call.op \in ResourceOps =>
            LET Path == done[i].call.arg
                sent == done[i].ret
            IN  /\ Len(sent) = 1
                /\ Split(Path, "/")[1] \notin Endpoints =>
                      sent[1].Status = StatusNotFound /\ done[i].requests = <<>>
                /\ LacksObjid(Path) =>
                      /\ sent[1].Status = StatusBadRequest
                      /\ sent[1].Body = "missing objid parameter"
                      /\ done[i].requests = <<>>

(***************************************************************************)
(* Claims about points without a usable value.                             *)
(***************************************************************************)
\* the date of the JSON point parses
Dated(raw) ==
    /\ "datetime" \in DOMAIN raw
    /\ raw["datetime"].t = "string"
    /\ parsePRTGDateTime(raw["datetime"].s).ok

\* the dated point has no value under the channel's name
LacksChannel(raw, channel) == Dated(raw) /\ channel \notin DOMAIN raw \ {"datetime"}

\* the dated point has a value under the channel's name that is neither a
\* number nor a string that parses as one
NotNumeric(raw, channel) ==
    /\ Dated(raw)
    /\ channel \in DOMAIN raw \ {"datetime"}
    /\ raw[channel].t # "float64"
    /\ ~(raw[channel].t = "string" /\ ParseFloat(raw[channel].s).ok)

\* C20: within one revision of query() the Metric strategy treats a point
\* that lacks the requested channel and a point whose channel value is
\* non-numeric or a non-coercible string the same way: both skipped, or both
\* recorded with a zero placeholder.
C20_OnePolicy ==
    \A i \in DOMAIN done :
        LET r == done[i]  c == r.call  pts == c.up.body.list
            dated   == {k \in DOMAIN pts : Dated(pts[k])}
            lacking == {k \in DOMAIN pts : LacksChannel(pts[k], c.qm.Channel)}
            broken  == {k \in DOMAIN pts : NotNumeric(pts[k], c.qm.Channel)}
        IN  /\ (c.op = "query" /\ c.qm.QueryType = "metrics" /\ Len(r.Frames) = 1) =>
                  \/ Len(r.Frames[1].Time) = Cardinality(dated \ (lacking \cup broken))
                  \/ Len(r.Frames[1].Time) = Cardinality(dated)
            /\ (c.op = "queryRev2" /\ Len(r.Frames) = 1) =>
                  \/ Len(r.Frames[1].Time) = Len(pts) - Cardinality(lacking \cup broken)
                  \/ /\ Len(r.Frames[1].Time) = Len(pts)
                     /\ \A k \in lacking \cup broken : r.Frames[1].Value[k] = Num(0)

(***************************************************************************)
(* Claims about datetime parsing.                                          *)
(***************************************************************************)
\* the text is a date and clock time in one of the two encodings
Supported(datetime) == ParseDotted(datetime).ok \/ ParseStandard(datetime).ok

\* C21: parsePRTGDateTime returns a parse error that carries the original
\* string for every input that matches none of the supported formats,
\* inputs of the X.X.X X:X:X shape with a field that is no number or is out
\* of range included; it never returns a time for such an input.
C21_ParseErrorForUnsupported ==
    \A i \in DOMAIN done :
        (done[i].call.op \in ParseOps /\ ~Supported(done[i].call.arg.datetime)) =>
            /\ ~done[i].ret.ok
            /\ done[i].Error # ""
            /\ HasSuffix(done[i].Error, done[i].call.arg.datetime)

\* the Unix second count the text writes, in whichever encoding it is
Written(datetime) ==
    IF ParseDotted(datetime).ok THEN ParseDotted(datetime).unix
    ELSE ParseStandard(datetime).unix

\* the Unix second count a finished call of the parser stands for: the
\* instant of the first revision, the text of the second handed to
\* time.Parse as query does; -1 when there is none
Parsed(d) ==
    IF ~d.ret.ok THEN 0 - 1
    ELSE IF d.call.op = "parsePRTGDateTimeRev1"
    THEN d.ret.time.day * 86400 + d.ret.time.sec
    ELSE IF ParseSpaced(d.ret.s).ok THEN ParseSpaced(d.ret.s).unix
    ELSE 0 - 1

\* C22: datetime parsing accepts both the DD.MM.YYYY HH:mm:ss encoding and a
\* standard timestamp encoding, and two strings that write the same
\* wall-clock instant in the two encodings parse to the same Unix second
\* count (checked with the local zone at UTC).
C22_BothEncodingsSameInstant ==
    \A i \in DOMAIN done :
        (/\ done[i].call.op \in ParseOps
         /\ done[i].call.arg.offset = 0
         /\ Supported(done[i].call.arg.datetime)) =>
            /\ done[i].ret.ok
            /\ Parsed(done[i]) = Written(done[i].call.arg.datetime)

(***************************************************************************)
(* Claims about the value column of a property query.                      *)
(***************************************************************************)
Range(f) == {f[x] : x \in DOMAIN f}

\* the numeric code a record holds under the raw field name
RawCode(e, field) ==
    IF field = "status_raw" THEN e.StatusRAW
    ELSE IF field = "active_raw" THEN e.ActiveRAW
    ELSE e.PriorityRAW

\* C23: for every entity kind, a property query whose resolved field is
\* status_raw, active_raw or priority_raw yields a numeric value column
\* holding the record's numeric code, never a string column.
C23_RawFieldsNumeric ==
    \A i \in DOMAIN done :
        (/\ IsPropertyQuery(done[i])
         /\ done[i].resolved # <<>>
         /\ done[i].resolved[1] \in {"status_raw", "active_raw", "priority_raw"}) =>
            \A f \in DOMAIN done[i].Frames :
                LET frame == done[i].Frames[f]
                    kind  == done[i].call.qm.Property
                    codes == {RawCode(e, done[i].resolved[1]) :
                                e \in {x \in Range(done[i].call.up.body.list) :
                                          entityName(kind, x)
                                              = wantedName(kind, done[i].call.qm)}}
                IN  /\ frame.ValueType = "float64"
                    /\ \A k \in DOMAIN frame.Value :
                          frame.Value[k] \in {Float64(n) : n \in codes}

(***************************************************************************)
(* Claims about cleanMessageHTML.                                          *)
(***************************************************************************)
Contains(s, sub) == \E i \in 1..Len(s) : HasPrefixAt(s, i, sub)

WrapperTags == {"<div class=\"status\">", "<div class=\"moreicon\">", "</div>"}

\* the records of the listing that carry the name the query asks for
Matching(d) ==
    {e \in Range(d.call.up.body.list) :
        entityName(d.call.qm.Property, e) = wantedName(d.call.qm.Property, d.call.qm)}

\* C24: the result of cleanMessageHTML contains none of the wrapper tags and
\* has no leading or trailing whitespace, so that cleaning it again changes
\* nothing; the display field message is always passed through it and
\* message_raw never is.
C24_CleanIsFinal ==
    \A i \in DOMAIN done :
        /\ done[i].call.op = "cleanMessageHTML" =>
              /\ \A tag \in WrapperTags : ~Contains(done[i].ret, tag)
              /\ TrimSpace(done[i].ret) = done[i].ret
              /\ cleanMessageHTML(done[i].ret) = done[i].ret
        /\ (IsPropertyQuery(done[i]) /\ done[i].resolved = <<"message">>) =>
              \A f \in DOMAIN done[i].Frames :
                  \A k \in DOMAIN done[i].Frames[f].Value :
                      done[i].Frames[f].Value[k]
                          \in {Str(cleanMessageHTML(e.Message)) : e \in Matching(done[i])}
        /\ (IsPropertyQuery(done[i]) /\ done[i].resolved = <<"message_raw">>) =>
              \A f \in DOMAIN done[i].Frames :
                  \A k \in DOMAIN done[i].Frames[f].Value :
                      done[i].Frames[f].Value[k]
                          \in {Str(e.MessageRAW) : e \in Matching(done[i])}

(***************************************************************************)
(* Claims about the series of a Metric frame.                              *)
(***************************************************************************)
\* the points the fetcher hands to the loop
PointsOf(d) == UnmarshalHistorical(d.call.up.body).HistData

\* the time list and the value list after the first k points
After(d, k) ==
    IF d.call.op = "query"
    THEN metricsLoop(SubSeq(PointsOf(d), 1, k), d.call.qm.Channel, 1, <<>>, <<>>)
    ELSE metricsLoopRev1(SubSeq(PointsOf(d), 1, k), d.call.arg.offset, 1, <<>>, <<>>)

IsMetricLoop(d) ==
    /\ d.call.op \in {"query", "queryRev1"}
    /\ d.call.json /\ d.call.qm.QueryType = "metrics"

\* C25: while a Metric query processes the upstream points, the time list
\* and the value list have equal length after every processed point,
\* whichever branch the point takes, and the emitted frame has a time column
\* and a value column of equal length.
C25_EqualLengths ==
    \A i \in DOMAIN done :
        IsMetricLoop(done[i]) =>
            /\ \A k \in 0..Len(PointsOf(done[i])) :
                  Len(After(done[i], k).times) = Len(After(done[i], k).values)
            /\ \A f \in DOMAIN done[i].Frames :
                  Len(done[i].Frames[f].Time) = Len(done[i].Frames[f].Value)

\* a query has gone through a point with a coercible string and a point
\* without the channel, and its frame holds a row for each
C25_Witness ==
    \E i \in DOMAIN done :
        /\ done[i].call.op = "query" /\ IsMetricLoop(done[i])
        /\ Len(PointsOf(done[i])) = 2
        /\ done[i].call.qm.Channel = "value"
        /\ PointsOf(done[i])[1].Value["value"] = Str("78.9")
        /\ "value" \notin DOMAIN PointsOf(done[i])[2].Value
        /\ Len(done[i].Frames) = 1
        /\ Len(done[i].Frames[1].Time) = 2 /\ Len(done[i].Frames[1].Value) = 2

(***************************************************************************)
(* Claims about concurrent queries.                                        *)
(***************************************************************************)
\* the result of the query run alone on the Api as it was built
RunAlone(c) ==
    queryRev2(c.json, c.qm, c.from, c.to,
              Delivered(c.up, c.arg.delay, NewApi(c.arg.configured).timeout))

\* C26: when several queries run concurrently on one Datasource/Api, each
\* query's result equals the result it produces when run alone against the
\* same upstream responses: no query reads state that another query or a
\* concurrent SetTimeout call writes, so no interleaving changes any result.
C26_ConcurrentEqualsAlone ==
    \A i \in DOMAIN done :
        done[i].call.op = "queryRev2" =>
            /\ done[i].Error = RunAlone(done[i].call).Error
            /\ done[i].Frames = RunAlone(done[i].call).Frames

(***************************************************************************)
(* Claims about the rows of a Text or Raw frame.                           *)
(***************************************************************************)
\* C27: a successful Text or Raw query yields a single observation: its
\* frame has exactly one row, also when several fetched records of the
\* requested kind carry the requested name.
C27_SingleObservation ==
    \A i \in DOMAIN done :
        (IsPropertyQuery(done[i]) /\ done[i].Error = "") =>
            \A f \in DOMAIN done[i].Frames : Len(done[i].Frames[f].Time) = 1

\* C28: a Text or Raw query whose property is not an entity kind (group,
\* device, sensor), the empty string and field names such as "status"
\* included, ends in a bad-request error and issues no entity fetch; it never
\* falls through to an empty success.
C28_NonEntityPropertyRejected ==
    \A i \in DOMAIN done :
        (/\ done[i].call.op = "query" /\ done[i].call.json
         /\ done[i].call.qm.QueryType \in {"text", "raw"}
         /\ done[i].call.qm.Property \notin {"group", "device", "sensor"}) =>
            /\ done[i].Error # ""
            /\ done[i].Status = StatusBadRequest
            /\ done[i].requests = <<>>

(***************************************************************************)
(* Claims about the time range of a Metric query.                          *)
(***************************************************************************)
IsMetricQuery(d) ==
    /\ d.call.op \in {"query", "queryRev2"}
    /\ d.call.json
    /\ d.call.qm.QueryType = "metrics"

\* C29: the time bounds a Metric query hands to GetHistoricalData denote the
\* instants of the query's time range in milliseconds since the epoch: the
\* sdate/edate sent are the requested from/to, the averaging value is picked
\* from the span to - from of the query, and a query range with from < to is
\* never rejected as an invalid range.
C29_RangeReachesUpstream ==
    \A i \in DOMAIN done :
        IsMetricQuery(done[i]) =>
            /\ Before(done[i].call.from, done[i].call.to) =>
                   ~Contains(done[i].Error, "invalid time range")
            /\ done[i].requests # <<>> =>
                   /\ done[i].requests[1].params.sdate = FormatVendor(done[i].call.from)
                   /\ done[i].requests[1].params.edate = FormatVendor(done[i].call.to)
                   /\ done[i].requests[1].params.avg =
                          avgFor(Sub(done[i].call.to, done[i].call.from))

(***************************************************************************)
(* Claims about where the rows of a Metric frame come from.                *)
(***************************************************************************)
\* the timestamp a row of point p carries, as the revision that ran parses
\* it; Unparsed when the datetime of the point does not parse
Unparsed == [zero |-> TRUE, unix |-> -1]

StampOf(d, p) ==
    IF d.call.op = "query"
    THEN IF parsePRTGDateTime(p.Datetime).ok
         THEN parsePRTGDateTime(p.Datetime).time ELSE Unparsed
    ELSE IF d.call.op = "queryRev1"
    THEN IF parsePRTGDateTimeRev1(p.Datetime, d.call.arg.offset).ok
         THEN parsePRTGDateTimeRev1(p.Datetime, d.call.arg.offset).time ELSE Unparsed
    ELSE IF parsePRTGDateTimeRev2(p.Datetime).ok
            /\ ParseSpaced(parsePRTGDateTimeRev2(p.Datetime).s).ok
         THEN TimeAt(ParseSpaced(parsePRTGDateTimeRev2(p.Datetime).s).unix)
         ELSE Unparsed

RECURSIVE IsSubsequence(_, _)
\* a can be had from b by leaving elements out
IsSubsequence(a, b) ==
    IF a = <<>> THEN TRUE
    ELSE IF b = <<>> THEN FALSE
    ELSE IF Head(a) = Head(b) THEN IsSubsequence(Tail(a), Tail(b))
    ELSE IsSubsequence(a, Tail(b))

\* C30: every row of a Metric frame comes from one upstream point: its
\* timestamp is the parsed datetime of that point, the rows are an
\* order-preserving subsequence of the points, and a skipped point leaves no
\* row behind, in particular no row with the zero timestamp and value 0.
C30_RowsFromPoints ==
    \A i \in DOMAIN done :
        (/\ done[i].call.op \in {"query", "queryRev1", "queryRev2"}
         /\ done[i].call.json /\ done[i].call.qm.QueryType = "metrics") =>
            \A f \in DOMAIN done[i].Frames :
                /\ IsSubsequence(done[i].Frames[f].Time,
                                 [k \in DOMAIN PointsOf(done[i]) |->
                                     StampOf(done[i], PointsOf(done[i])[k])])
                /\ \A k \in DOMAIN done[i].Frames[f].Time :
                       ~(/\ done[i].Frames[f].Time[k] = ZeroTime
                         /\ done[i].Frames[f].Value[k] = Num(0))

====
